---- MODULE Spec2Model ----
(***************************************************************************)
(* Verification model of CLIPy: the PageCrawler worker pool                *)
(* (CLIPy/crawler.py, CLIPy/utils/populate.py), the temporal range of      *)
(* TemporalEntity (CLIPy/database/models.py, candidates.py) and the        *)
(* reconciliation Controller (CLIPy/database/database.py).                 *)
(***************************************************************************)
EXTENDS Integers, Sequences, FiniteSets, TLC

(***************************************************************************)
(* Bounds of the model                                                     *)
(***************************************************************************)
\* size of the worker pool (populate.py THREADS is the shipped default, 6)
NumWorkers == 2
\* number of targets seeded into the work queue
NumTargets == NumWorkers + 1

Workers == 1..NumWorkers
Targets == 1..NumTargets

\* value of queue_lock when no thread holds it
Unlocked == -1
\* value of work_unit before the first pop
NoUnit == 0
\* Python's None and SQL's NULL in a field of numbers, kept apart from every
\* year and identifier
None == -1
\* None and NULL in a field of text
NoText == "None"
\* None where a row or a candidate is expected
NoRow == [none |-> TRUE]
\* the years of the model are 2008 .. 2008 + YearSpan
YearSpan == 7
Years == 2008..(2008 + YearSpan)
\* the candidates of the controller carry years 2010 .. 2010 + DbYearSpan
DbYearSpan == 1
DbYears == 2010..(2010 + DbYearSpan)
\* candidates reconciled in one behaviour
MaxCalls == 2
\* students, teachers and admissions reconciled in one behaviour
MaxIdentityCalls == 3
\* add_turn_instances calls in one behaviour
MaxTurnCalls == 2
\* the most instances one add_turn_instances call is given
MaxInstances == 2
\* calls given to the cached controller and its twin in one behaviour
MaxCacheCalls == 3
\* work units one worker takes while workers share a store
MaxCrawlUnits == 1
\* the most admissions one add_admissions call is given
MaxBatch == 2
\* add_turn and add_turn_students calls in one behaviour
MaxLinkCalls == 3
\* the most teachers or students one of these calls is given
MaxMembers == 2
\* the failures of a worker that do not come from the candidates: failed
\* commits and errors crawl_function raises before it writes
MaxTaskFailures == 1
\* Session objects constructed in one behaviour
MaxSessions == 2
\* minutes the clock advances in one step, and the last minute looked at
TickMinutes == 10
MaxNow == 20
\* session.py line 61: timedelta(minutes=15)
AuthWindow == 15

Min(a, b) == IF a < b THEN a ELSE b
\* the per-target run count keeps 0, 1 and "two or more" apart
CountedRuns(n) == Min(n, 2)
Max(a, b) == IF a > b THEN a ELSE b

VARIABLES
    \* ---- worker pool (crawler.py PageCrawler, populate.py populate_classes)
    work_queue,       \* Queue of targets, FIFO
    queue_lock,       \* holder of the Lock, or Unlocked
    pc,               \* position of every PageCrawler.run
    work_unit,        \* the local work_unit of every worker
    exception_count,  \* the local exception_count of every worker
    main_pc,          \* position of populate_classes
    started,          \* number of threads populate_classes has started
    joined,           \* number of threads populate_classes has joined
    \* history of the pool, written and never read by the program
    runs,             \* per target: crawl_function calls made on it, counted
                      \* 0, 1, 2 where 2 stands for two or more
    failed,           \* per target: some crawl_function call on it raised
    attempts,         \* per worker: crawl_function calls on its last target
    pops,             \* per target: the get() calls that returned it
    slept,            \* per worker: the sleeps made on its last target
    \* ---- temporal ranges (models.py and candidates.py TemporalEntity)
    entity,           \* a persisted TemporalEntity: first_year, last_year
    candidate,        \* a candidate TemporalEntity: first_year, last_year
    year_call,        \* the last add_year call: on, year, before
    \* ---- reconciliation (database.py Controller and its orm.Session)
    store,            \* the committed rows of every table
    session,          \* the rows as the controller's session holds them:
                      \* the committed rows and its uncommitted changes
    batch,            \* the batch method the controller is inside of
    call,             \* the last controller call: op, cand, raised, old,
                      \* new, entity
    calls,            \* number of candidates reconciled so far
    \* ---- the identity cache (database.py Controller with cache=True)
    cache,            \* the cached collections of the controller
    twin,             \* a controller with cache=False that is given the same
                      \* calls over a store of its own: store, session, call
    \* ---- workers that reconcile over one store (crawler.py, database.py)
    crawler,          \* per worker: where it is in crawl_function, its
                      \* candidate, what its lookup found, its exception_count
    \* ---- the web sessions (session.py)
    web               \* sessions, active_sessions, auth_lock, per thread
                      \* where it is in authenticate, the clock, the last
                      \* Session() call

poolVars == <<work_queue, queue_lock, pc, work_unit, exception_count,
              main_pc, started, joined, runs, failed, attempts, pops, slept>>

yearVars == <<entity, candidate, year_call>>

dbVars == <<store, session, batch, call, calls>>

cacheVars == <<cache, twin>>

crawlVars == <<crawler>>

webVars == <<web>>

vars == <<poolVars, yearVars, dbVars, cacheVars, crawlVars, webVars>>

\* what the worker pool leaves alone
nonPoolVars == <<yearVars, dbVars, cacheVars, crawlVars, webVars>>
\* what add_year leaves alone
nonYearVars == <<poolVars, dbVars, cacheVars, crawlVars, webVars>>
\* what the controller leaves alone
nonDbVars == <<poolVars, yearVars, cacheVars, crawlVars, webVars>>
\* what the web sessions leave alone
nonWebVars == <<poolVars, yearVars, dbVars, cacheVars, crawlVars>>

(***************************************************************************)
(* Each specification below looks at one part of the program and holds the *)
(* variables of the other parts at the values defined here.                *)
(***************************************************************************)
Range(f, l) == [first_year |-> f, last_year |-> l]

NoYearCall == [on |-> "none", year |-> None, before |-> Range(None, None)]

\* the temporal variables while another part of the program is looked at
IdleYear ==
    /\ entity = Range(None, None)
    /\ candidate = Range(None, None)
    /\ year_call = NoYearCall

EmptyTables ==
    [institutions |-> {}, departments |-> {}, courses |-> {}, classes |-> {},
     students |-> {}, teachers |-> {}, admissions |-> {},
     turn_instances |-> {}, deleted_instances |-> {},
     buildings |-> {}, rooms |-> {},
     turns |-> {}, turn_teachers |-> {}, turn_students |-> {},
     pending_links |-> <<>>, enrollments |-> {}]

NoCall == [op |-> "none", cand |-> NoRow, raised |-> "none", old |-> NoText,
           new |-> NoText, entity |-> NoRow]

\* the controller while another part of the program is looked at
IdleDb ==
    /\ store = EmptyTables
    /\ session = EmptyTables
    /\ batch = "none"
    /\ call = NoCall
    /\ calls = 0

\* database.py lines 70-81 over an empty store
EmptyCache ==
    [buildings |-> {}, rooms |-> {}, courses |-> {}, course_abbrs |-> {}]

\* the cache and the second controller while caching is not looked at
IdleCache ==
    /\ cache = EmptyCache
    /\ twin = [store |-> EmptyTables, session |-> EmptyTables, call |-> NoCall]

\* crawler.py lines 30-31: a worker that has its session and its controller
\* and no work unit yet
NoCrawl ==
    [pc |-> "idle", cand |-> NoRow, found |-> NoRow, exception_count |-> 0,
     units |-> 0, raised |-> "none", pending |-> {}]

\* the workers over one store while they are not looked at
IdleCrawl == crawler = [w \in 1..NumWorkers |-> NoCrawl]

\* session.py line 47: a session that was not constructed; last_success is
\* the time of the session's last credential POST that was accepted
NoSession ==
    [state |-> "none", cookie_file |-> NoText, authenticated |-> FALSE,
     last_authentication |-> None, last_success |-> None]

NoMade == [session |-> None, cookie_file |-> NoText, raised |-> "none"]

\* session.py lines 15-16: no active session, Semaphore() holds one permit
IdleWeb ==
    web = [sessions |-> [s \in 1..MaxSessions |-> NoSession],
           active_sessions |-> <<>>,
           auth_lock |-> 1,
           pc |-> [t \in 1..NumWorkers |-> "idle"],
           on |-> [t \in 1..NumWorkers |-> None],
           result |-> [t \in 1..NumWorkers |-> "none"],
           now |-> 0,
           made |-> NoMade]

\* the pool while another part of the program is looked at: nothing seeded,
\* no thread started
IdlePool ==
    /\ work_queue = <<>>
    /\ queue_lock = Unlocked
    /\ pc = [w \in Workers |-> "new"]
    /\ work_unit = [w \in Workers |-> NoUnit]
    /\ exception_count = [w \in Workers |-> 0]
    /\ main_pc = "start"
    /\ started = 0
    /\ joined = 0
    /\ runs = [t \in Targets |-> 0]
    /\ failed = [t \in Targets |-> FALSE]
    /\ attempts = [w \in Workers |-> 0]
    /\ pops = [t \in Targets |-> 0]
    /\ slept = [w \in Workers |-> <<>>]

(***************************************************************************)
(* Queue and Lock                                                          *)
(***************************************************************************)
\* an emptiness test that is off by one: a queue of one target counts as empty
Empty_OffByOne(q) == Len(q) <= 1

\* Queue.empty()
Empty(q) == q = <<>>

\* an acquire that does not wait for the holder
CanAcquire_NoWait == TRUE

\* Lock.acquire() returns only when the lock is not held
CanAcquire == queue_lock = Unlocked

\* the seeded queue: one put per target (populate.py line 101)
SeededQueue == [i \in 1..NumTargets |-> i]

(***************************************************************************)
(* PageCrawler.run                                                         *)
(***************************************************************************)
\* a delay without the base of 5 seconds
Backoff_NoBase(n) == Min(n, 55)

\* the delay of the retry sleep (crawler.py lines 48 and 52)
Backoff(n) == 5 + Min(n, 55)

\* a ceiling that is reached one failure early
CeilingExceeded_Early(n) == n >= 10

\* the fatal ceiling (crawler.py line 50)
CeilingExceeded(n) == n > 10

\* a release that is put off until the crawl task is over
LockAfterPop_Kept(w) == w

\* line 36: self.queue_lock.release() right after the get()
LockAfterPop(w) == Unlocked

\* an empty branch that breaks out of the loop with the lock held
LockAfterEmpty_Kept(w) == w

\* line 54: self.queue_lock.release() on the empty branch
LockAfterEmpty(w) == Unlocked

\* a handler that puts the failed target back into the queue
QueueAfterFailure_Requeue(q, t) == Append(q, t)

\* lines 43-52: the except clause does not touch the queue
QueueAfterFailure(q, t) == q

\* line 33: self.queue_lock.acquire(); the worker is done with its last
\* target, the history of that target (attempts, slept) starts afresh
WorkerAcquire(w) ==
    /\ UNCHANGED nonPoolVars
    /\ pc[w] = "acquire"
    /\ CanAcquire
    /\ queue_lock' = w
    /\ pc' = [pc EXCEPT ![w] = "check"]
    /\ attempts' = [attempts EXCEPT ![w] = 0]
    /\ slept' = [slept EXCEPT ![w] = <<>>]
    /\ UNCHANGED <<work_queue, work_unit, exception_count, main_pc, started,
                   joined, runs, failed, pops>>

\* line 34: if not self.work_queue.empty()
WorkerCheck(w) ==
    /\ UNCHANGED nonPoolVars
    /\ pc[w] = "check"
    /\ pc' = [pc EXCEPT ![w] = IF ~Empty(work_queue) THEN "get" ELSE "release_exit"]
    /\ UNCHANGED <<work_queue, queue_lock, work_unit, exception_count, main_pc,
                   started, joined, runs, failed, attempts, pops, slept>>

\* a get() that returns the first target and leaves it in the queue
QueueAfterGet_Peek(q) == q

\* line 35: Queue.get() removes the target it returns
QueueAfterGet(q) == Tail(q)

\* line 35: work_unit = self.work_queue.get(); get() blocks on an empty queue
WorkerGet(w) ==
    /\ UNCHANGED nonPoolVars
    /\ pc[w] = "get"
    /\ ~Empty(work_queue)
    /\ work_unit' = [work_unit EXCEPT ![w] = Head(work_queue)]
    /\ work_queue' = QueueAfterGet(work_queue)
    /\ pops' = [pops EXCEPT ![Head(work_queue)] = @ + 1]
    /\ pc' = [pc EXCEPT ![w] = "release"]
    /\ UNCHANGED <<queue_lock, exception_count, main_pc, started, joined,
                   runs, failed, attempts, slept>>

\* lines 36-37: self.queue_lock.release(); exception_count = 0
WorkerRelease(w) ==
    /\ UNCHANGED nonPoolVars
    /\ pc[w] = "release"
    /\ queue_lock' = LockAfterPop(w)
    /\ exception_count' = [exception_count EXCEPT ![w] = 0]
    /\ pc' = [pc EXCEPT ![w] = "crawl"]
    /\ UNCHANGED <<work_queue, work_unit, main_pc, started, joined,
                   runs, failed, attempts, pops, slept>>

\* lines 54-55: self.queue_lock.release(); break -- run returns
WorkerReleaseExit(w) ==
    /\ UNCHANGED nonPoolVars
    /\ pc[w] = "release_exit"
    /\ queue_lock' = LockAfterEmpty(w)
    /\ pc' = [pc EXCEPT ![w] = "done"]
    /\ UNCHANGED <<work_queue, work_unit, exception_count, main_pc, started,
                   joined, runs, failed, attempts, pops, slept>>

\* lines 40-42: crawl_function returns; exception_count = 0; break
WorkerCrawlOk(w) ==
    /\ UNCHANGED nonPoolVars
    /\ pc[w] = "crawl"
    /\ runs' = [runs EXCEPT ![work_unit[w]] = CountedRuns(@ + 1)]
    /\ attempts' = [attempts EXCEPT ![w] = @ + 1]
    /\ exception_count' = [exception_count EXCEPT ![w] = 0]
    /\ pc' = [pc EXCEPT ![w] = "acquire"]
    /\ UNCHANGED <<work_queue, queue_lock, work_unit, main_pc, started,
                   joined, failed, pops, slept>>

\* lines 40, 43-52: crawl_function raises; rollback; exception_count += 1;
\* above the ceiling run raises, otherwise the worker goes to sleep
WorkerCrawlFail(w) ==
    /\ UNCHANGED nonPoolVars
    /\ pc[w] = "crawl"
    /\ runs' = [runs EXCEPT ![work_unit[w]] = CountedRuns(@ + 1)]
    /\ failed' = [failed EXCEPT ![work_unit[w]] = TRUE]
    /\ attempts' = [attempts EXCEPT ![w] = @ + 1]
    /\ exception_count' = [exception_count EXCEPT ![w] = @ + 1]
    /\ IF CeilingExceeded(exception_count[w] + 1)
       THEN /\ pc' = [pc EXCEPT ![w] = "fatal"]
            /\ slept' = slept
       ELSE /\ pc' = [pc EXCEPT ![w] = "sleep"]
            /\ slept' = [slept EXCEPT ![w] = Append(@, Backoff(exception_count[w] + 1))]
    /\ work_queue' = QueueAfterFailure(work_queue, work_unit[w])
    /\ UNCHANGED <<queue_lock, work_unit, main_pc, started, joined, pops>>

\* line 52: sleep(...) returns; the inner while True runs the task again
WorkerWake(w) ==
    /\ UNCHANGED nonPoolVars
    /\ pc[w] = "sleep"
    /\ pc' = [pc EXCEPT ![w] = "crawl"]
    /\ UNCHANGED <<work_queue, queue_lock, work_unit, exception_count, main_pc,
                   started, joined, runs, failed, attempts, pops, slept>>

(***************************************************************************)
(* populate_classes                                                        *)
(***************************************************************************)
\* lines 105-108: threads[thread].start()
MainStart ==
    /\ UNCHANGED nonPoolVars
    /\ main_pc = "start"
    /\ started < NumWorkers
    /\ started' = started + 1
    /\ pc' = [pc EXCEPT ![started + 1] = "acquire"]
    /\ UNCHANGED <<work_queue, queue_lock, work_unit, exception_count, main_pc,
                   joined, runs, failed, attempts, pops, slept>>

\* lines 110-118, one round of the polling loop, entered when the for loop
\* has started every thread: acquire, test the queue, release; on an empty
\* queue break, otherwise sleep(5) and poll again
MainPoll ==
    /\ UNCHANGED nonPoolVars
    /\ \/ (main_pc = "start" /\ started = NumWorkers)
       \/ main_pc = "poll"
    /\ CanAcquire
    /\ main_pc' = IF Empty(work_queue) THEN "join" ELSE "poll"
    /\ UNCHANGED <<work_queue, queue_lock, pc, work_unit, exception_count,
                   started, joined, runs, failed, attempts, pops, slept>>

\* a join that returns at once
Joinable_NoWait(w) == TRUE

\* Thread.join() returns when run has returned or raised
Joinable(w) == pc[w] \in {"done", "fatal"}

\* lines 120-121: thread.join() returns when that thread's run has ended
MainJoin ==
    /\ UNCHANGED nonPoolVars
    /\ main_pc = "join"
    /\ joined < NumWorkers
    /\ Joinable(joined + 1)
    /\ joined' = joined + 1
    /\ UNCHANGED <<work_queue, queue_lock, pc, work_unit, exception_count,
                   main_pc, started, runs, failed, attempts, pops, slept>>

\* populate_classes returns after the last join
MainReturn ==
    /\ UNCHANGED nonPoolVars
    /\ main_pc = "join"
    /\ joined = NumWorkers
    /\ main_pc' = "returned"
    /\ UNCHANGED <<work_queue, queue_lock, pc, work_unit, exception_count,
                   started, joined, runs, failed, attempts, pops, slept>>

\* populate.py lines 99-104: the queue is seeded, no thread is started yet
InitPool ==
    /\ work_queue = SeededQueue
    /\ queue_lock = Unlocked
    /\ pc = [w \in Workers |-> "new"]
    /\ work_unit = [w \in Workers |-> NoUnit]
    /\ exception_count = [w \in Workers |-> 0]
    /\ main_pc = "start"
    /\ started = 0
    /\ joined = 0
    /\ runs = [t \in Targets |-> 0]
    /\ failed = [t \in Targets |-> FALSE]
    /\ attempts = [w \in Workers |-> 0]
    /\ pops = [t \in Targets |-> 0]
    /\ slept = [w \in Workers |-> <<>>]
    /\ IdleYear
    /\ IdleDb
    /\ IdleCache
    /\ IdleCrawl
    /\ IdleWeb

NextPool ==
    \/ MainStart
    \/ MainPoll
    \/ MainJoin
    \/ MainReturn
    \/ \E w \in Workers : WorkerAcquire(w)
    \/ \E w \in Workers : WorkerCheck(w)
    \/ \E w \in Workers : WorkerGet(w)
    \/ \E w \in Workers : WorkerRelease(w)
    \/ \E w \in Workers : WorkerReleaseExit(w)
    \/ \E w \in Workers : WorkerCrawlOk(w)
    \/ \E w \in Workers : WorkerCrawlFail(w)
    \/ \E w \in Workers : WorkerWake(w)

SpecPool == InitPool /\ [][NextPool]_vars

\* the steps of one thread of the pool and of the thread of populate_classes
WorkerStep(w) ==
    \/ WorkerAcquire(w)
    \/ WorkerCheck(w)
    \/ WorkerGet(w)
    \/ WorkerRelease(w)
    \/ WorkerReleaseExit(w)
    \/ WorkerCrawlOk(w)
    \/ WorkerCrawlFail(w)
    \/ WorkerWake(w)

MainStep == MainStart \/ MainPoll \/ MainJoin \/ MainReturn

\* every thread that can take a step is scheduled in the end, and every
\* crawl_function call and every sleep comes to an end
SpecPoolFair ==
    /\ SpecPool
    /\ WF_vars(MainStep)
    /\ \A w \in Workers : WF_vars(WorkerStep(w))

(***************************************************************************)
(* TemporalEntity.add_year                                                 *)
(***************************************************************************)
\* the ranges an entity starts from: fully unset, or set with first <= last
WellFormed(r) == \/ r = Range(None, None)
                 \/ r.first_year \in Years /\ r.last_year \in Years
                    /\ r.first_year <= r.last_year

\* add_year that widens downwards only (the elif branch is missing)
WidenRange_OnlyDown(r, year) ==
    LET r1 == IF r.first_year = None THEN [r EXCEPT !.first_year = year] ELSE r
        r2 == IF r1.last_year = None THEN [r1 EXCEPT !.last_year = year] ELSE r1
    IN  IF r2.first_year > year THEN [r2 EXCEPT !.first_year = year] ELSE r2

\* candidates.py lines 16-24 and models.py lines 137-145, the same statements
WidenRange(r, year) ==
    LET r1 == IF r.first_year = None THEN [r EXCEPT !.first_year = year] ELSE r
        r2 == IF r1.last_year = None THEN [r1 EXCEPT !.last_year = year] ELSE r1
    IN  IF r2.first_year > year THEN [r2 EXCEPT !.first_year = year]
        ELSE IF r2.last_year < year THEN [r2 EXCEPT !.last_year = year]
        ELSE r2

\* models.py TemporalEntity.add_year: a None year returns at once
add_year(r, year) == IF year = None THEN r ELSE WidenRange(r, year)

\* candidates.py TemporalEntity.add_year: called with the int a page link gives
candidate_add_year(r, year) == WidenRange(r, year)

ModelAddYear(y) ==
    /\ UNCHANGED nonYearVars
    /\ entity' = add_year(entity, y)
    /\ year_call' = [on |-> "model", year |-> y, before |-> entity]
    /\ UNCHANGED candidate

CandidateAddYear(y) ==
    /\ UNCHANGED nonYearVars
    /\ candidate' = candidate_add_year(candidate, y)
    /\ year_call' = [on |-> "candidate", year |-> y, before |-> candidate]
    /\ UNCHANGED entity

InitYear ==
    /\ entity \in {r \in [first_year : Years \cup {None}, last_year : Years \cup {None}] : WellFormed(r)}
    /\ candidate \in {r \in [first_year : Years \cup {None}, last_year : Years \cup {None}] : WellFormed(r)}
    /\ year_call = NoYearCall
    /\ IdlePool
    /\ IdleDb
    /\ IdleCache
    /\ IdleCrawl
    /\ IdleWeb

NextYear ==
    \/ \E y \in Years \cup {None} : ModelAddYear(y)
    \/ \E y \in Years : CandidateAddYear(y)

SpecYear == InitYear /\ [][NextYear]_vars

(***************************************************************************)
(* Controller: candidates                                                  *)
(***************************************************************************)
Nullable(S) == S \cup {None}
NullableText(S) == S \cup {NoText}
Names == {"A", "B"}
\* the range of a candidate: unset, or set by add_year or by the parser
CandidateRanges ==
    {Range(None, None)} \cup
    {r \in [first_year : DbYears, last_year : DbYears] :
        r.first_year <= r.last_year}

\* populate.py line 46: InstitutionCandidate(clip_id, name, abbreviation)
InstitutionCandidates ==
    {[id |-> 1, name |-> n, abbreviation |-> a,
      first_year |-> r.first_year, last_year |-> r.last_year] :
        n \in NullableText(Names), a \in NullableText({"x"}), r \in CandidateRanges}

\* populate.py line 88: DepartmentCandidate(id, name, institution, year, year)
DepartmentCandidates ==
    {[id |-> 1, name |-> n, institution |-> 1,
      first_year |-> r.first_year, last_year |-> r.last_year] :
        n \in NullableText(Names), r \in CandidateRanges}

\* populate.py lines 141, 151-152: the abbreviation and the degree of a
\* CourseCandidate are set together
CourseCandidates ==
    {[id |-> 1, name |-> n, abbreviation |-> a,
      degree |-> IF a = NoText THEN None ELSE 1, institution |-> 1,
      first_year |-> r.first_year, last_year |-> r.last_year] :
        n \in NullableText(Names), a \in NullableText({"x"}), r \in CandidateRanges}

\* crawler.py lines 198-199: candidates.Class(id, name, department, abbr, ects)
ClassCandidates ==
    {[id |-> 1, name |-> n, department |-> d, abbreviation |-> a, ects |-> e] :
        n \in Names, d \in {1, 2}, a \in NullableText({"x", "y"}), e \in Nullable({12})}

(***************************************************************************)
(* Controller: the session                                                 *)
(***************************************************************************)
Returned(op, c, e) ==
    [op |-> op, cand |-> c, raised |-> "none", old |-> NoText, new |-> NoText,
     entity |-> e]
Raised(op, c, what, old, new) ==
    [op |-> op, cand |-> c, raised |-> what, old |-> old, new |-> new,
     entity |-> NoRow]

\* a controller method is entered: the last call returned, or the caller has
\* handled what it raised
CanCall == call.raised = "none" /\ calls < MaxCalls

\* crawler.py line 44: db_session.rollback() in the handler of the worker
SessionRollback ==
    /\ UNCHANGED nonDbVars
    /\ call.raised # "none"
    /\ session' = store
    /\ call' = Returned("rollback", NoRow, NoRow)
    /\ UNCHANGED <<store, batch, calls>>

(***************************************************************************)
(* Controller.add_institutions                                             *)
(***************************************************************************)
\* lines 331-336
NewInstitution(c) ==
    [id |-> c.id, name |-> c.name, abbreviation |-> c.abbreviation,
     first_year |-> c.first_year, last_year |-> c.last_year]

\* lines 348-360 (and 405-417 of add_departments)
MergedFirstYear(r, c) ==
    IF r.first_year = None THEN c.first_year
    ELSE IF c.first_year # None /\ c.first_year < r.first_year THEN c.first_year
    ELSE r.first_year

\* a merge that leaves an unset last_year unset
MergedLastYear_NoFill(r, c) ==
    IF r.last_year = None THEN None
    ELSE IF c.last_year # None /\ c.last_year > r.last_year THEN c.last_year
    ELSE r.last_year

MergedLastYear(r, c) ==
    IF r.last_year = None THEN c.last_year
    ELSE IF c.last_year # None /\ c.last_year > r.last_year THEN c.last_year
    ELSE r.last_year

\* lines 339-360
MergeInstitution(r, c) ==
    [id |-> r.id,
     name |-> IF c.name # NoText /\ r.name # c.name THEN c.name ELSE r.name,
     abbreviation |-> IF c.abbreviation # NoText THEN c.abbreviation
                      ELSE r.abbreviation,
     first_year |-> MergedFirstYear(r, c),
     last_year |-> MergedLastYear(r, c)]

\* lines 321-363: one round of the for loop, nothing is committed yet
AddInstitutionsItem(c) ==
    /\ UNCHANGED nonDbVars
    /\ CanCall
    /\ batch \in {"none", "add_institutions"}
    /\ LET found == {r \in session.institutions : r.id = c.id}
       IN  session' = [session EXCEPT !.institutions =
                          IF found = {} THEN @ \cup {NewInstitution(c)}
                          ELSE (@ \ found) \cup
                               {MergeInstitution(r, c) : r \in found}]
    /\ batch' = "add_institutions"
    /\ call' = Returned("add_institutions", c, NoRow)
    /\ calls' = calls + 1
    /\ UNCHANGED store

\* lines 365-368: the loop is over, self.session.commit()
AddInstitutionsEnd ==
    /\ UNCHANGED nonDbVars
    /\ batch = "add_institutions"
    /\ store' = session
    /\ batch' = "none"
    /\ UNCHANGED <<session, call, calls>>

(***************************************************************************)
(* Controller.add_departments                                              *)
(***************************************************************************)
\* lines 392-397
NewDepartment(c) ==
    [id |-> c.id, name |-> c.name, institution |-> c.institution,
     first_year |-> c.first_year, last_year |-> c.last_year]

\* lines 400-417
MergeDepartment(r, c) ==
    [id |-> r.id,
     name |-> IF c.name # NoText /\ r.name # c.name THEN c.name ELSE r.name,
     institution |-> r.institution,
     first_year |-> MergedFirstYear(r, c),
     last_year |-> MergedLastYear(r, c)]

\* lines 382-420: one round of the for loop
AddDepartmentsItem(c) ==
    /\ UNCHANGED nonDbVars
    /\ CanCall
    /\ batch \in {"none", "add_departments"}
    /\ LET found == {r \in session.departments : r.id = c.id}
       IN  session' = [session EXCEPT !.departments =
                          IF found = {} THEN @ \cup {NewDepartment(c)}
                          ELSE (@ \ found) \cup
                               {MergeDepartment(r, c) : r \in found}]
    /\ batch' = "add_departments"
    /\ call' = Returned("add_departments", c, NoRow)
    /\ calls' = calls + 1
    /\ UNCHANGED store

\* lines 422-425: the loop is over, self.session.commit()
AddDepartmentsEnd ==
    /\ UNCHANGED nonDbVars
    /\ batch = "add_departments"
    /\ store' = session
    /\ batch' = "none"
    /\ UNCHANGED <<session, call, calls>>

(***************************************************************************)
(* Controller.add_courses                                                  *)
(***************************************************************************)
\* lines 550-557
NewCourse(c) ==
    [internal_id |-> c.id, name |-> c.name, abbreviation |-> c.abbreviation,
     first_year |-> c.first_year, last_year |-> c.last_year,
     degree |-> c.degree, institution |-> c.institution]

\* a name check that lets every name pass
CourseNameConflict_Never(r, c) == FALSE

\* line 562
CourseNameConflict(r, c) == c.name # NoText /\ c.name # r.name

\* lines 571-573
CourseFirstYearChanges(r, c) ==
    \/ r.first_year = None
    \/ (c.first_year # None /\ c.first_year < r.first_year)

\* lines 575-576
CourseLastYearChanges(r, c) ==
    \/ r.last_year = None
    \/ (c.last_year # None /\ c.last_year < r.last_year)

\* lines 565-578
MergeCourse(r, c) ==
    [internal_id |-> r.internal_id,
     name |-> r.name,
     abbreviation |-> IF c.abbreviation # NoText THEN c.abbreviation
                      ELSE r.abbreviation,
     degree |-> IF c.degree # None THEN c.degree ELSE r.degree,
     institution |-> r.institution,
     first_year |-> IF CourseFirstYearChanges(r, c) THEN c.first_year
                    ELSE r.first_year,
     last_year |-> IF CourseLastYearChanges(r, c) THEN c.last_year
                   ELSE r.last_year]

\* lines 565-579: the value of changed
CourseChanged(r, c) ==
    \/ c.abbreviation # NoText
    \/ c.degree # None
    \/ CourseFirstYearChanges(r, c)
    \/ CourseLastYearChanges(r, c)

\* lines 543-580 and 584-586: one round of the for loop; a new course and a
\* changed course are committed at once, a name conflict rolls back and
\* leaves add_courses with "Failed to add courses"
AddCoursesItem(c) ==
    /\ UNCHANGED nonDbVars
    /\ CanCall
    /\ batch \in {"none", "add_courses"}
    /\ calls' = calls + 1
    /\ LET found == {r \in session.courses :
                        r.internal_id = c.id /\ r.institution = c.institution}
       IN  IF found = {}
           THEN /\ session' = [session EXCEPT !.courses = @ \cup {NewCourse(c)}]
                /\ store' = session'
                /\ batch' = "add_courses"
                /\ call' = Returned("add_courses", c, NoRow)
           ELSE LET r == CHOOSE x \in found : TRUE
                IN  IF CourseNameConflict(r, c)
                    THEN /\ session' = store
                         /\ store' = store
                         /\ batch' = "none"
                         /\ call' = Raised("add_courses", c,
                                           "Failed to add courses", NoText, NoText)
                    ELSE /\ session' = [session EXCEPT !.courses =
                                           (@ \ {r}) \cup {MergeCourse(r, c)}]
                         /\ store' = IF CourseChanged(r, c) THEN session'
                                     ELSE store
                         /\ batch' = "add_courses"
                         /\ call' = Returned("add_courses", c, NoRow)

\* lines 582-589: the loop is over
AddCoursesEnd ==
    /\ UNCHANGED nonDbVars
    /\ batch = "add_courses"
    /\ batch' = "none"
    /\ UNCHANGED <<store, session, call, calls>>

(***************************************************************************)
(* Controller.add_class                                                    *)
(***************************************************************************)
\* lines 454-459
NewClass(c) ==
    [internal_id |-> c.id, name |-> c.name, department |-> c.department,
     abbreviation |-> c.abbreviation, ects |-> c.ects]

\* a name check that lets every name pass
ClassNameConflict_Never(r, c) == FALSE

\* line 437
ClassNameConflict(r, c) == r.name # c.name

\* lines 430-462
AddClass(c) ==
    /\ UNCHANGED nonDbVars
    /\ CanCall
    /\ batch = "none"
    /\ calls' = calls + 1
    /\ batch' = batch
    /\ LET found == {r \in session.classes :
                        r.internal_id = c.id /\ r.department = c.department}
       IN  IF found = {}
           THEN /\ session' = [session EXCEPT !.classes = @ \cup {NewClass(c)}]
                /\ store' = session'
                /\ call' = Returned("add_class", c, NewClass(c))
           ELSE LET r == CHOOSE x \in found : TRUE
                IN  IF ClassNameConflict(r, c)
                    THEN /\ call' = Raised("add_class", c,
                                "Class name change attempt", r.name, c.name)
                         /\ UNCHANGED <<store, session>>
                    ELSE IF c.abbreviation # NoText /\ r.abbreviation = NoText
                    THEN /\ session' = [session EXCEPT !.classes = (@ \ {r}) \cup
                                {[r EXCEPT !.abbreviation = c.abbreviation]}]
                         /\ store' = session'
                         /\ call' = Returned("add_class", c,
                                [r EXCEPT !.abbreviation = c.abbreviation])
                    ELSE IF c.abbreviation # NoText
                            /\ r.abbreviation # c.abbreviation
                    THEN /\ call' = Raised("add_class", c,
                                "Class abbreviation change attempt",
                                r.abbreviation, c.abbreviation)
                         /\ UNCHANGED <<store, session>>
                    ELSE /\ call' = Returned("add_class", c, r)
                         /\ UNCHANGED <<store, session>>

\* a controller over an empty store, populate.py lines 285-295
InitNames ==
    /\ store = EmptyTables
    /\ session = EmptyTables
    /\ batch = "none"
    /\ call = NoCall
    /\ calls = 0
    /\ IdlePool
    /\ IdleYear
    /\ IdleCache
    /\ IdleCrawl
    /\ IdleWeb

NextNames ==
    \/ \E c \in InstitutionCandidates : AddInstitutionsItem(c)
    \/ AddInstitutionsEnd
    \/ \E c \in DepartmentCandidates : AddDepartmentsItem(c)
    \/ AddDepartmentsEnd
    \/ \E c \in CourseCandidates : AddCoursesItem(c)
    \/ AddCoursesEnd
    \/ \E c \in ClassCandidates : AddClass(c)
    \/ SessionRollback

SpecNames == InitNames /\ [][NextNames]_vars

(***************************************************************************)
(* Controller: students, teachers and admissions                           *)
(***************************************************************************)
\* crawler.py line 232: candidates.Student(id, name, course, institution);
\* the id and the institution are always given
StudentCandidates ==
    {[id |-> i, name |-> n, abbreviation |-> a, course |-> k, institution |-> 1] :
        i \in {1, 2}, n \in NullableText(Names), a \in NullableText({"a", "b"}),
        k \in Nullable({1})}

\* candidates.py lines 95-101: candidates.Teacher(id, name, department)
TeacherCandidates ==
    {[id |-> 1, name |-> n, department |-> d] : n \in Names, d \in {1, 2}}

\* crawler.py lines 229-236: an admission of a stored student or of a name;
\* candidates.py lines 114-124 allow both to be given
AdmissionCandidates(students) ==
    {[student |-> p[1], name |-> p[2], course |-> 1, phase |-> 1, year |-> 2010,
      option |-> 1, state |-> "Colocado"] :
        p \in {q \in Nullable({r.id : r \in students}) \X NullableText({"A"}) :
                  q[1] # None \/ q[2] # NoText}}

\* the lists of admissions add_admissions is given
AdmissionBatches(students) ==
    UNION {[1..n -> AdmissionCandidates(students)] : n \in 0..MaxBatch}

\* the next value of the sequence behind a crawler assigned identifier
NextId(rows) == Cardinality(rows) + 1

\* models.py line 451: the primary key of teachers; line 501: un_student_id_abbr;
\* line 566: un_admission; a NULL equals no other NULL
BreaksConstraint(tables) ==
    \/ \E r1, r2 \in tables.teachers : r1 # r2 /\ r1.id = r2.id
    \/ \E r1, r2 \in tables.students :
          /\ r1 # r2
          /\ r1.abbreviation # NoText
          /\ r1.abbreviation = r2.abbreviation
    \/ \E r1, r2 \in tables.admissions :
          /\ r1 # r2
          /\ r1.student_id # None /\ r1.name # NoText
          /\ r1.student_id = r2.student_id /\ r1.name = r2.name
          /\ r1.year = r2.year /\ r1.phase = r2.phase

CanCallIdentity == call.raised = "none" /\ calls < MaxIdentityCalls

\* session.commit() on the tables as the method leaves them: the pending rows
\* are flushed and the store rejects them or takes them
Commit(op, c, tables, e) ==
    /\ session' = tables
    /\ IF BreaksConstraint(tables)
       THEN /\ store' = store
            /\ call' = Raised(op, c, "IntegrityError", NoText, NoText)
       ELSE /\ store' = tables
            /\ call' = Returned(op, c, e)

\* database.py lines 609-614 and 634-639
NewStudent(c, rows) ==
    [id |-> NextId(rows), internal_id |-> c.id, name |-> c.name,
     abbreviation |-> c.abbreviation, institution |-> c.institution,
     course |-> c.course]

\* database.py line 619
SameStudent(r, c) == r.abbreviation = c.abbreviation \/ r.name = c.name

\* database.py lines 591-647
AddStudent(c) ==
    /\ UNCHANGED nonDbVars
    /\ CanCallIdentity
    /\ calls' = calls + 1
    /\ UNCHANGED batch
    /\ IF c.name = NoText
       THEN /\ call' = Raised("add_student", c, "Invalid name", NoText, NoText)
            /\ UNCHANGED <<store, session>>
       ELSE IF BreaksConstraint(session)
       THEN \* line 606: the query flushes the pending rows
            /\ call' = Raised("add_student", c, "IntegrityError", NoText, NoText)
            /\ UNCHANGED <<store, session>>
       ELSE LET db_students == {r \in session.students : r.internal_id = c.id}
            IN  IF db_students = {}
                THEN LET n == NewStudent(c, session.students)
                     IN  Commit("add_student", c,
                                [session EXCEPT !.students = @ \cup {n}], n)
                ELSE IF Cardinality(db_students) = 1
                THEN LET r == CHOOSE x \in db_students : TRUE
                         abbreviated ==
                             IF r.abbreviation = NoText /\ c.abbreviation # NoText
                             THEN [r EXCEPT !.abbreviation = c.abbreviation]
                             ELSE r
                         merged ==
                             IF c.course # None
                             THEN [abbreviated EXCEPT !.course = c.course]
                             ELSE abbreviated
                         tables == [session EXCEPT !.students =
                                       (@ \ {r}) \cup {merged}]
                         n == NewStudent(c, session.students)
                     IN  IF ~SameStudent(r, c)
                         THEN \* lines 633-640: added and not committed
                              /\ session' = [session EXCEPT !.students = @ \cup {n}]
                              /\ store' = store
                              /\ call' = Returned("add_student", c, n)
                         ELSE IF /\ r.abbreviation # NoText
                                 /\ c.abbreviation # NoText
                                 /\ c.abbreviation # r.abbreviation
                         THEN /\ call' = Raised("add_student", c,
                                     "Attempted to change the student abbreviation",
                                     r.abbreviation, c.abbreviation)
                              /\ UNCHANGED <<store, session>>
                         ELSE IF merged # r
                         THEN Commit("add_student", c, tables, merged)
                         ELSE IF c.course # None
                         THEN Commit("add_student", c, session, r)
                         ELSE /\ call' = Returned("add_student", c, r)
                              /\ UNCHANGED <<store, session>>
                ELSE /\ call' = Raised("add_student", c,
                                       "Duplicated students found", NoText, NoText)
                     /\ UNCHANGED <<store, session>>

\* database.py line 655
NewTeacher(c) == [id |-> c.id, name |-> c.name, department |-> c.department]

\* database.py lines 649-661
AddTeacher(c) ==
    /\ UNCHANGED nonDbVars
    /\ CanCallIdentity
    /\ calls' = calls + 1
    /\ UNCHANGED batch
    /\ IF BreaksConstraint(session)
       THEN \* line 650: the query flushes the pending rows
            /\ call' = Raised("add_teacher", c, "IntegrityError", NoText, NoText)
            /\ UNCHANGED <<store, session>>
       ELSE LET found == {r \in session.teachers :
                             /\ r.id = c.id
                             /\ r.name = c.name
                             /\ r.department = c.department}
            IN  IF found = {}
                THEN Commit("add_teacher", c,
                            [session EXCEPT !.teachers = @ \cup {NewTeacher(c)}],
                            NewTeacher(c))
                ELSE /\ call' = Returned("add_teacher", c, CHOOSE r \in found : TRUE)
                     /\ UNCHANGED <<store, session>>

\* database.py lines 778-786
NewAdmission(c, rows) ==
    [id |-> NextId(rows), student_id |-> c.student, name |-> c.name,
     course |-> c.course, phase |-> c.phase, year |-> c.year,
     option |-> c.option, state |-> c.state]

\* lines 778-787: the rows of the list, in its order
RECURSIVE NewAdmissions(_, _)
NewAdmissions(admissions, rows) ==
    IF admissions = <<>> THEN rows
    ELSE NewAdmissions(Tail(admissions),
                       rows \cup {NewAdmission(Head(admissions), rows)})

\* database.py lines 777-791
AddAdmissions(admissions) ==
    /\ UNCHANGED nonDbVars
    /\ CanCallIdentity
    /\ calls' = calls + 1
    /\ UNCHANGED batch
    /\ IF Len(admissions) > 0
       THEN Commit("add_admissions", admissions,
                   [session EXCEPT !.admissions = NewAdmissions(admissions, @)],
                   NoRow)
       ELSE /\ call' = Returned("add_admissions", admissions, NoRow)
            /\ UNCHANGED <<store, session>>

\* a controller over an empty store, populate.py line 168
InitIdentity ==
    /\ store = EmptyTables
    /\ session = EmptyTables
    /\ batch = "none"
    /\ call = NoCall
    /\ calls = 0
    /\ IdlePool
    /\ IdleYear
    /\ IdleCache
    /\ IdleCrawl
    /\ IdleWeb

NextIdentity ==
    \/ \E c \in StudentCandidates : AddStudent(c)
    \/ \E c \in TeacherCandidates : AddTeacher(c)
    \/ \E a \in AdmissionBatches(session.students) : AddAdmissions(a)
    \/ SessionRollback

SpecIdentity == InitIdentity /\ [][NextIdentity]_vars

(***************************************************************************)
(* The ranges of stored entities under add_year and reconciliation         *)
(***************************************************************************)
\* models.py lines 134-145: add_year on a persisted institution, department
\* or course that the session holds, between two controller calls; nothing
\* is committed by it
StoredAddYear(kind, y) ==
    /\ UNCHANGED nonDbVars
    /\ call.raised = "none"
    /\ batch = "none"
    /\ \E r \in session[kind] :
          LET widened == add_year(Range(r.first_year, r.last_year), y)
          IN  session' = [session EXCEPT ![kind] = (@ \ {r}) \cup
                             {[r EXCEPT !.first_year = widened.first_year,
                                        !.last_year = widened.last_year]}]
    /\ UNCHANGED <<store, batch, call, calls>>

InitRanges ==
    /\ store = EmptyTables
    /\ session = EmptyTables
    /\ batch = "none"
    /\ call = NoCall
    /\ calls = 0
    /\ IdlePool
    /\ IdleYear
    /\ IdleCache
    /\ IdleCrawl
    /\ IdleWeb

NextRanges ==
    \/ \E c \in InstitutionCandidates : AddInstitutionsItem(c)
    \/ AddInstitutionsEnd
    \/ \E c \in DepartmentCandidates : AddDepartmentsItem(c)
    \/ AddDepartmentsEnd
    \/ \E c \in CourseCandidates : AddCoursesItem(c)
    \/ AddCoursesEnd
    \/ \E kind \in {"institutions", "departments", "courses"} :
          \E y \in Nullable(DbYears) : StoredAddYear(kind, y)
    \/ SessionRollback

SpecRanges == InitRanges /\ [][NextRanges]_vars

(***************************************************************************)
(* Controller.add_turn_instances                                           *)
(***************************************************************************)
\* the time slots of the pages: Monday 9-11, Monday 9-10, Wednesday 9-11 and
\* Friday 14-16, in minutes from midnight (crawler.py line 451)
Slots ==
    {[start |-> 540, end |-> 660, weekday |-> 0],
     [start |-> 540, end |-> 600, weekday |-> 0],
     [start |-> 540, end |-> 660, weekday |-> 2],
     [start |-> 840, end |-> 960, weekday |-> 4]}

\* crawler.py line 456: candidates.TurnInstance(turn, start, end, weekday, room)
TurnInstanceCandidates ==
    {[turn |-> t, start |-> k.start, end |-> k.end, weekday |-> k.weekday,
      room |-> r] : t \in {1, 2}, k \in Slots, r \in {"RoomA", "RoomB"}}

\* the lists add_turn_instances is given
InstanceLists ==
    UNION {[1..n -> TurnInstanceCandidates] : n \in 0..MaxInstances}

\* rows that the session deletes stay in the table until the flush, which
\* inserts before it deletes: session.deleted_instances holds them
FlushedInstances(tables) == tables.turn_instances \cup tables.deleted_instances

\* models.py line 744: un_turn_instance on (turn_id, start, weekday)
BreaksTurnInstanceConstraint(rows) ==
    \E r1, r2 \in rows :
        /\ r1.id # r2.id
        /\ r1.turn = r2.turn /\ r1.start = r2.start /\ r1.weekday = r2.weekday

\* the flush of what the session holds raises IntegrityError
FlushFails(tables) == BreaksTurnInstanceConstraint(FlushedInstances(tables))

\* models.py line 729: the next values of turn_instance_id_seq
LastInstanceId(tables) ==
    LET ids == {r.id : r \in FlushedInstances(tables)}
    IN  IF ids = {} THEN 0 ELSE CHOOSE i \in ids : \A j \in ids : j <= i

\* database.py lines 737-742 and 762-769: models.TurnInstance(...) for the
\* i-th instance left to insert
NewTurnInstance(c, id) ==
    [id |-> id, turn |-> c.turn, start |-> c.start, end |-> c.end,
     weekday |-> c.weekday, room |-> c.room]

NewTurnInstances(instances, tables) ==
    {NewTurnInstance(instances[i], LastInstanceId(tables) + i) :
        i \in 1..Len(instances)}

\* a turn check that lets every list pass
MixedTurns_Never(instances) == FALSE

\* database.py lines 716-721
MixedTurns(instances) ==
    \E i \in 1..Len(instances) : instances[i].turn # instances[1].turn

\* database.py lines 750-751
SameSlot(r, c) ==
    r.start = c.start /\ r.end = c.end /\ r.weekday = c.weekday

\* the rows in the order the query returns them
RECURSIVE ById(_)
ById(rows) ==
    IF rows = {} THEN <<>>
    ELSE LET r == CHOOSE x \in rows : \A y \in rows : x.id <= y.id
         IN  <<r>> \o ById(rows \ {r})

RemoveAt(seq, i) == SubSeq(seq, 1, i - 1) \o SubSeq(seq, i + 1, Len(seq))

\* database.py lines 746-761: the stored instances are matched one by one
\* against the instances left; a match takes the room of the instance and
\* removes it from the list, a stored instance without a match is deleted
RECURSIVE Resync(_, _, _, _)
Resync(db_turn_instances, instances, kept, deleted) ==
    IF db_turn_instances = <<>>
    THEN [kept |-> kept, deleted |-> deleted, instances |-> instances]
    ELSE LET r == Head(db_turn_instances)
             matches == {i \in 1..Len(instances) : SameSlot(r, instances[i])}
         IN  IF matches = {}
             THEN Resync(Tail(db_turn_instances), instances, kept,
                         deleted \cup {r})
             ELSE LET i == CHOOSE m \in matches : \A n \in matches : m <= n
                  IN  Resync(Tail(db_turn_instances), RemoveAt(instances, i),
                             kept \cup {[r EXCEPT !.room = instances[i].room]},
                             deleted)

\* a query that finds no instance of the turn
InstancesOfTurn_None(rows, turn) == {}

\* database.py lines 727 and 746: filter_by(turn=turn)
InstancesOfTurn(rows, turn) == {r \in rows : r.turn = turn}

CanCallTurns == call.raised = "none" /\ calls < MaxTurnCalls

\* a loop that starts from the first turn of the store
TurnOf_Default(instances) ==
    IF instances = <<>> THEN 1 ELSE instances[1].turn

\* database.py lines 716-719: turn is None until the first instance is seen
TurnOf(instances) ==
    IF instances = <<>> THEN None ELSE instances[1].turn

\* database.py lines 715-769: what the call leaves in the session and in the
\* store, and how it ends
add_turn_instances(session0, store0, instances, destructive) ==
    LET c == [instances |-> instances, destructive |-> destructive]
        turn == TurnOf(instances)
        flushed == [session0 EXCEPT !.deleted_instances = {}]
        of_turn == InstancesOfTurn(flushed.turn_instances, turn)
        others == flushed.turn_instances \ of_turn
    IN
    IF MixedTurns(instances)
    THEN \* lines 720-721
         [session |-> session0, store |-> store0,
          call |-> Raised("add_turn_instances", c,
                          "Instances belong to multiple turns", NoText, NoText)]
    ELSE IF turn = None
    THEN \* lines 722-723
         [session |-> session0, store |-> store0,
          call |-> Returned("add_turn_instances", c, NoRow)]
    ELSE IF destructive
    THEN IF FlushFails(session0)
         THEN \* lines 727-732: the delete flushes first; rollback and raise
              [session |-> store0, store |-> store0,
               call |-> Raised("add_turn_instances", c,
                               "Error deleting turn instances", NoText, NoText)]
         ELSE LET tables == [flushed EXCEPT !.turn_instances =
                                others \cup NewTurnInstances(instances, flushed)]
              IN  \* lines 734-744
                  IF Len(instances) = 0
                  THEN [session |-> tables, store |-> store0,
                        call |-> Returned("add_turn_instances", c, NoRow)]
                  ELSE IF FlushFails(tables)
                  THEN [session |-> tables, store |-> store0,
                        call |-> Raised("add_turn_instances", c,
                                        "IntegrityError", NoText, NoText)]
                  ELSE [session |-> tables, store |-> tables,
                        call |-> Returned("add_turn_instances", c, NoRow)]
    ELSE IF FlushFails(session0)
         THEN \* line 746: the query flushes first
              [session |-> session0, store |-> store0,
               call |-> Raised("add_turn_instances", c,
                               "IntegrityError", NoText, NoText)]
         ELSE LET done == Resync(ById(of_turn), instances, {}, {})
              IN  \* lines 746-769: nothing is flushed or committed
                  [session |-> [flushed EXCEPT
                        !.turn_instances = others \cup done.kept \cup
                            NewTurnInstances(done.instances,
                                [flushed EXCEPT !.turn_instances =
                                    others \cup of_turn]),
                        !.deleted_instances = done.deleted],
                   store |-> store0,
                   call |-> Returned("add_turn_instances", c, NoRow)]

\* database.py lines 715-769
AddTurnInstances(instances, destructive) ==
    LET out == add_turn_instances(session, store, instances, destructive)
    IN
    /\ UNCHANGED nonDbVars
    /\ CanCallTurns
    /\ calls' = calls + 1
    /\ UNCHANGED batch
    /\ session' = out.session
    /\ store' = out.store
    /\ call' = out.call

\* a controller over a store without turn instances, crawler.py line 458
InitTurns ==
    /\ store = EmptyTables
    /\ session = EmptyTables
    /\ batch = "none"
    /\ call = NoCall
    /\ calls = 0
    /\ IdlePool
    /\ IdleYear
    /\ IdleCache
    /\ IdleCrawl
    /\ IdleWeb

NextTurns ==
    \/ \E instances \in InstanceLists : \E destructive \in BOOLEAN :
          AddTurnInstances(instances, destructive)
    \/ SessionRollback

SpecTurns == InitTurns /\ [][NextTurns]_vars

(***************************************************************************)
(* Controller with cache=True beside a controller with cache=False         *)
(***************************************************************************)
\* a str used as a dict key; a models.Building used as a key is another value
Str(s) == [str |-> s]

\* what a controller method leaves behind: its session, the store, its cache
\* and what it returned or raised
Outcome(s, st, ch, c) == [session |-> s, store |-> st, cache |-> ch, call |-> c]

\* database.py lines 143-148: __load_buildings__, a dict by building.name
LoadBuildings(tables) ==
    {[key |-> Str(b.name), value |-> b] : b \in tables.buildings}

\* database.py lines 150-159: __load_rooms__ walks every pair of a room and a
\* building and stores the building under building.name, room_type, room.name
LoadRooms(tables) ==
    {[building |-> Str(b.name), room_type |-> r.room_type, name |-> Str(r.name),
      value |-> b] : r \in tables.rooms, b \in tables.buildings}

\* database.py lines 116-127: __load_courses__, by internal_id and by
\* abbreviation
LoadCourses(tables) ==
    {[key |-> r.internal_id, value |-> r] : r \in tables.courses}

LoadCourseAbbrs(tables) ==
    {[key |-> a, value |-> {r \in tables.courses : r.abbreviation = a}] :
        a \in {r.abbreviation : r \in tables.courses}}

\* the primary keys (models.py lines 158 and 235) and un_room (line 246)
BreaksRoomConstraint(tables) ==
    \/ \E b1, b2 \in tables.buildings : b1 # b2 /\ b1.id = b2.id
    \/ \E r1, r2 \in tables.rooms :
          /\ r1 # r2
          /\ \/ r1.id = r2.id
             \/ /\ r1.building = r2.building /\ r1.name = r2.name
                /\ r1.room_type = r2.room_type

\* candidates.py lines 147-154: candidates.Building(identifier, name)
BuildingCandidates ==
    {[id |-> i, name |-> n] : i \in {1, 2}, n \in {"B1", "B2"}}

\* candidates.py lines 167-176: candidates.Room(identifier, name, room_type,
\* building) with a stored building; the portal gives each room its own id
RoomCandidates(buildings) ==
    {[id |-> 2 * (b.id - 1) + t, name |-> "R", type |-> t, building |-> b] :
        t \in {1, 2}, b \in buildings}

\* database.py line 909 and 920
NewBuilding(c) == [id |-> c.id, name |-> c.name]

\* database.py lines 897-920
add_building(caching, session0, store0, cache0, c) ==
    LET added == [session0 EXCEPT !.buildings = @ \cup {NewBuilding(c)}]
        cached == {e \in cache0.buildings : e.key = Str(c.name)}
        found == {b \in session0.buildings : b.name = c.name}
    IN  IF caching
        THEN IF cached # {}
             THEN Outcome(session0, store0, cache0,
                     Returned("add_building", c, (CHOOSE e \in cached : TRUE).value))
             ELSE IF BreaksRoomConstraint(added)
             THEN \* lines 912-916: logged, rolled back, None is returned
                  Outcome(store0, store0,
                          [cache0 EXCEPT !.buildings = LoadBuildings(store0)],
                          Returned("add_building", c, NoRow))
             ELSE Outcome(added, added,
                          [cache0 EXCEPT !.buildings = LoadBuildings(added)],
                          Returned("add_building", c, NewBuilding(c)))
        ELSE IF found # {}
             THEN Outcome(session0, store0, cache0,
                     Returned("add_building", c, CHOOSE b \in found : TRUE))
             ELSE IF BreaksRoomConstraint(added)
             THEN Outcome(added, store0, cache0,
                     Raised("add_building", c, "IntegrityError", NoText, NoText))
             ELSE Outcome(added, added, cache0,
                     Returned("add_building", c, NewBuilding(c)))

\* database.py lines 922-927
get_building(caching, session0, store0, cache0, name) ==
    LET cached == {e \in cache0.buildings : e.key = Str(name)}
        found == {b \in session0.buildings : b.name = name}
    IN  Outcome(session0, store0, cache0,
            Returned("get_building", name,
                IF caching
                THEN IF cached # {} THEN (CHOOSE e \in cached : TRUE).value
                     ELSE NoRow
                ELSE IF found # {} THEN CHOOSE b \in found : TRUE ELSE NoRow))

\* database.py lines 842-845 and 853-856
NewRoom(c) ==
    [id |-> c.id, name |-> c.name, room_type |-> c.type, building |-> c.building.id]

\* database.py lines 833-866; candidate.building is a models.Building
add_room(caching, session0, store0, cache0, c) ==
    LET added == [session0 EXCEPT !.rooms = @ \cup {NewRoom(c)}]
        cached == {e \in cache0.rooms :
                      /\ e.building = c.building
                      /\ e.room_type = c.type
                      /\ e.name = Str(c.name)}
        found == {r \in session0.rooms :
                      /\ r.name = c.name /\ r.room_type = c.type
                      /\ r.building = c.building.id}
    IN  IF caching /\ cached # {}
        THEN Outcome(session0, store0, cache0,
                Returned("add_room", c, (CHOOSE e \in cached : TRUE).value))
        ELSE IF ~caching /\ found # {}
        THEN Outcome(session0, store0, cache0,
                Returned("add_room", c, CHOOSE r \in found : TRUE))
        ELSE IF BreaksRoomConstraint(added)
        THEN \* lines 861-863: logged, rolled back, None is returned
             Outcome(store0, store0, cache0, Returned("add_room", c, NoRow))
        ELSE Outcome(added, added,
                     IF caching THEN [cache0 EXCEPT !.rooms = LoadRooms(added)]
                     ELSE cache0,
                     Returned("add_room", c, NewRoom(c)))

\* database.py lines 868-895; building is a models.Building, room_type may be
\* None
get_room(caching, session0, store0, cache0, a) ==
    LET of_building == {e \in cache0.rooms : e.building = a.building}
        cached == {e \in of_building :
                      e.room_type = a.room_type /\ e.name = Str(a.name)}
        named == {r \in session0.rooms :
                     r.name = a.name /\ r.building = a.building.id}
        typed == {r \in named : r.room_type = a.room_type}
        call0 ==
            IF caching
            THEN IF a.room_type # None
                 THEN Returned("get_room", a,
                         IF cached # {} THEN (CHOOSE e \in cached : TRUE).value
                         ELSE NoRow)
                 ELSE IF of_building # {}
                 THEN \* line 877: name in building_room_type, a room type
                      Raised("get_room", a, "TypeError", NoText, NoText)
                 ELSE Raised("get_room", a, "Unknown building", NoText, NoText)
            ELSE IF a.room_type # None
                 THEN Returned("get_room", a,
                         IF typed # {} THEN CHOOSE r \in typed : TRUE ELSE NoRow)
                 ELSE IF Cardinality(named) = 1
                 THEN Returned("get_room", a, CHOOSE r \in named : TRUE)
                 ELSE Raised("get_room", a,
                         "Unable to determine which room is the correct one",
                         NoText, NoText)
    IN  Outcome(session0, store0, cache0, call0)

\* populate.py lines 141 and 151-152: courses of one institution that share
\* an abbreviation, each seen in one year
CachedCourseCandidates ==
    {[id |-> i, name |-> "A", abbreviation |-> "x", degree |-> 1,
      institution |-> 1, first_year |-> y, last_year |-> y] :
        i \in {1, 2}, y \in DbYears}

\* database.py lines 540-589 given a list of one course: the lookup is a
\* query with and without the cache, the finally clause reloads the cache
add_courses(caching, session0, store0, cache0, c) ==
    LET found == {r \in session0.courses :
                     r.internal_id = c.id /\ r.institution = c.institution}
        r == CHOOSE x \in found : TRUE
        added == [session0 EXCEPT !.courses = @ \cup {NewCourse(c)}]
        merged == [session0 EXCEPT !.courses = (@ \ {r}) \cup {MergeCourse(r, c)}]
        reload(tables) ==
            IF caching
            THEN [cache0 EXCEPT !.courses = LoadCourses(tables),
                                !.course_abbrs = LoadCourseAbbrs(tables)]
            ELSE cache0
    IN  IF found = {}
        THEN Outcome(added, added, reload(added),
                     Returned("add_courses", c, NoRow))
        ELSE IF CourseNameConflict(r, c)
        THEN Outcome(store0, store0, reload(store0),
                     Raised("add_courses", c, "Failed to add courses",
                            NoText, NoText))
        ELSE IF CourseChanged(r, c)
        THEN Outcome(merged, merged, reload(merged),
                     Returned("add_courses", c, NoRow))
        ELSE Outcome(merged, store0, reload(merged),
                     Returned("add_courses", c, NoRow))

\* database.py lines 254-287; a.identifier, a.abbreviation and a.year may be
\* None.  A models.Course has no initial_year: reading it (lines 274 and
\* 286) raises AttributeError on the first match
get_course(caching, session0, store0, cache0, a) ==
    LET by_id == {e \in cache0.courses : e.key = a.identifier}
        by_abbr == {e \in cache0.course_abbrs : e.key = a.abbreviation}
        cached == (CHOOSE e \in by_abbr : TRUE).value
        \* lines 260 and 278: both queries are filter_by(internal_id=identifier)
        queried == {r \in session0.courses : r.internal_id = a.identifier}
        among(matches) ==
            IF Cardinality(matches) = 0
            THEN Returned("get_course", a, NoRow)
            ELSE IF Cardinality(matches) = 1
            THEN Returned("get_course", a, CHOOSE r \in matches : TRUE)
            ELSE IF a.year = None
            THEN Raised("get_course", a, "Multiple matches. Year unspecified",
                        NoText, NoText)
            ELSE Raised("get_course", a, "AttributeError", NoText, NoText)
        call0 ==
            IF a.identifier # None
            THEN IF caching
                 THEN Returned("get_course", a,
                         IF by_id # {} THEN (CHOOSE e \in by_id : TRUE).value
                         ELSE NoRow)
                 ELSE Returned("get_course", a,
                         IF queried # {} THEN CHOOSE r \in queried : TRUE
                         ELSE NoRow)
            ELSE IF a.abbreviation # NoText
            THEN IF caching
                 THEN IF by_abbr = {} THEN Returned("get_course", a, NoRow)
                      ELSE among(cached)
                 ELSE among(queried)
            ELSE Returned("get_course", a, NoRow)
    IN  Outcome(session0, store0, cache0, call0)

\* the arguments get_room and get_course are called with
GetRoomArguments(buildings) ==
    {[name |-> "R", building |-> b, room_type |-> t] :
        b \in buildings, t \in Nullable({1, 2})}

GetCourseArguments ==
    {[identifier |-> i, abbreviation |-> a, year |-> y] :
        i \in Nullable({1, 2}), a \in NullableText({"x"}), y \in Nullable(DbYears)}

CanCallCached ==
    /\ call.raised = "none"
    /\ twin.call.raised = "none"
    /\ calls < MaxCacheCalls

\* the same call on the controller with the cache and on the one without
BothCall(cached, plain) ==
    /\ UNCHANGED <<poolVars, yearVars, crawlVars, webVars>>
    /\ session' = cached.session
    /\ store' = cached.store
    /\ cache' = cached.cache
    /\ call' = cached.call
    /\ twin' = [store |-> plain.store, session |-> plain.session,
                call |-> plain.call]
    /\ calls' = calls + 1
    /\ UNCHANGED batch

CachedAddBuilding(c) ==
    /\ CanCallCached
    /\ BothCall(add_building(TRUE, session, store, cache, c),
                add_building(FALSE, twin.session, twin.store, EmptyCache, c))

CachedGetBuilding(name) ==
    /\ CanCallCached
    /\ BothCall(get_building(TRUE, session, store, cache, name),
                get_building(FALSE, twin.session, twin.store, EmptyCache, name))

\* the building of the candidate is what get_building gave each controller
CachedAddRoom(name, t) ==
    LET b1 == get_building(TRUE, session, store, cache, name).call.entity
        b2 == get_building(FALSE, twin.session, twin.store, EmptyCache, name).call.entity
    IN  /\ CanCallCached
        /\ b1 # NoRow
        /\ b2 # NoRow
        /\ \E c1 \in {c \in RoomCandidates({b1}) : c.type = t} :
           \E c2 \in {c \in RoomCandidates({b2}) : c.type = t} :
              BothCall(add_room(TRUE, session, store, cache, c1),
                       add_room(FALSE, twin.session, twin.store, EmptyCache, c2))

CachedGetRoom(name, t) ==
    LET b1 == get_building(TRUE, session, store, cache, name).call.entity
        b2 == get_building(FALSE, twin.session, twin.store, EmptyCache, name).call.entity
    IN  /\ CanCallCached
        /\ b1 # NoRow
        /\ b2 # NoRow
        /\ \E a1 \in {a \in GetRoomArguments({b1}) : a.room_type = t} :
           \E a2 \in {a \in GetRoomArguments({b2}) : a.room_type = t} :
              BothCall(get_room(TRUE, session, store, cache, a1),
                       get_room(FALSE, twin.session, twin.store, EmptyCache, a2))

CachedAddCourses(c) ==
    /\ CanCallCached
    /\ BothCall(add_courses(TRUE, session, store, cache, c),
                add_courses(FALSE, twin.session, twin.store, EmptyCache, c))

CachedGetCourse(a) ==
    /\ CanCallCached
    /\ BothCall(get_course(TRUE, session, store, cache, a),
                get_course(FALSE, twin.session, twin.store, EmptyCache, a))

\* crawler.py line 44 in the caller of either controller
BothRollback ==
    /\ UNCHANGED <<poolVars, yearVars, crawlVars, webVars>>
    /\ call.raised # "none" \/ twin.call.raised # "none"
    /\ session' = store
    /\ call' = Returned("rollback", NoRow, NoRow)
    /\ twin' = [twin EXCEPT !.session = twin.store,
                            !.call = Returned("rollback", NoRow, NoRow)]
    /\ UNCHANGED <<store, cache, batch, calls>>

\* database.py lines 70-81: both controllers are constructed over an empty
\* store
InitCache ==
    /\ store = EmptyTables
    /\ session = EmptyTables
    /\ batch = "none"
    /\ call = NoCall
    /\ calls = 0
    /\ cache = EmptyCache
    /\ twin = [store |-> EmptyTables, session |-> EmptyTables, call |-> NoCall]
    /\ IdlePool
    /\ IdleYear
    /\ IdleCrawl
    /\ IdleWeb

NextCache ==
    \/ \E c \in BuildingCandidates : CachedAddBuilding(c)
    \/ \E name \in {"B1", "B2"} : CachedGetBuilding(name)
    \/ \E name \in {"B1", "B2"} : \E t \in {1, 2} : CachedAddRoom(name, t)
    \/ \E name \in {"B1", "B2"} : \E t \in Nullable({1, 2}) : CachedGetRoom(name, t)
    \/ \E c \in CachedCourseCandidates : CachedAddCourses(c)
    \/ \E a \in GetCourseArguments : CachedGetCourse(a)
    \/ BothRollback

SpecCache == InitCache /\ [][NextCache]_vars

(***************************************************************************)
(* Workers with a session each, reconciling classes over one store         *)
(***************************************************************************)
\* models.py line 209: the primary key of a class, given by the store
NextClassId(tables) ==
    IF tables.classes = {} THEN 1
    ELSE 1 + (CHOOSE i \in {r.id : r \in tables.classes} :
                 \A r \in tables.classes : r.id <= i)

\* database.py lines 454-459 and models.py line 209
NewClassRow(c, id) ==
    [id |-> id, internal_id |-> c.id, name |-> c.name,
     department |-> c.department, abbreviation |-> c.abbreviation,
     ects |-> c.ects]

\* models.py lines 206-218: the constraints of the classes table, the
\* primary key and nothing else
BreaksClassConstraint(tables) ==
    \E r1, r2 \in tables.classes : r1 # r2 /\ r1.id = r2.id

\* crawler.py lines 34-37: the worker has taken a work unit whose page shows
\* the class c
WorkerTakes(w, c) ==
    /\ UNCHANGED <<poolVars, yearVars, cacheVars, webVars>>
    /\ crawler[w].pc \in {"idle", "returned"}
    /\ crawler[w].units < MaxCrawlUnits
    /\ crawler' = [crawler EXCEPT ![w] =
                      [pc |-> "crawl", cand |-> c, found |-> NoRow,
                       exception_count |-> 0, units |-> @.units + 1,
                       raised |-> "none", pending |-> {}]]
    /\ UNCHANGED dbVars

\* database.py lines 431-434: the query of add_class in the worker's own
\* session, which sees what is committed
AddClassQuery(w) ==
    /\ UNCHANGED <<poolVars, yearVars, cacheVars, webVars>>
    /\ crawler[w].pc = "crawl"
    /\ LET c == crawler[w].cand
           found == {r \in store.classes :
                        r.internal_id = c.id /\ r.department = c.department}
       IN  \/ /\ found = {}
              /\ crawler' = [crawler EXCEPT ![w].pc = "looked",
                                            ![w].found = NoRow]
           \/ \E r \in found :
                 crawler' = [crawler EXCEPT ![w].pc = "looked",
                                            ![w].found = r]
    /\ UNCHANGED dbVars

\* database.py lines 436-462: the rest of add_class, on what the query gave
AddClassWrite(w) ==
    /\ UNCHANGED <<poolVars, yearVars, cacheVars, webVars>>
    /\ crawler[w].pc = "looked"
    /\ LET c == crawler[w].cand
           r == crawler[w].found
           added == [store EXCEPT !.classes =
                        @ \cup {NewClassRow(c, NextClassId(store))}]
           filled == [store EXCEPT !.classes =
                         {IF x.id = r.id
                          THEN [x EXCEPT !.abbreviation = c.abbreviation]
                          ELSE x : x \in @}]
       IN  IF r = NoRow
           THEN IF BreaksClassConstraint(added)
                THEN /\ crawler' = [crawler EXCEPT ![w].pc = "raised",
                                       ![w].raised = "IntegrityError"]
                     /\ store' = store
                ELSE /\ crawler' = [crawler EXCEPT ![w].pc = "returned"]
                     /\ store' = added
           ELSE IF ClassNameConflict(r, c)
           THEN /\ crawler' = [crawler EXCEPT ![w].pc = "raised",
                                  ![w].raised = "Class name change attempt"]
                /\ store' = store
           ELSE IF c.abbreviation # NoText /\ r.abbreviation = NoText
           THEN /\ crawler' = [crawler EXCEPT ![w].pc = "returned"]
                /\ store' = filled
           ELSE IF c.abbreviation # NoText /\ r.abbreviation # c.abbreviation
           THEN /\ crawler' = [crawler EXCEPT ![w].pc = "raised",
                                  ![w].raised = "Class abbreviation change attempt"]
                /\ store' = store
           ELSE /\ crawler' = [crawler EXCEPT ![w].pc = "returned"]
                /\ store' = store
    /\ UNCHANGED <<session, batch, call, calls>>

\* database.py lines 454-461: the commit of the new class raises because
\* the store cannot be written (sqlite: database is locked); the row stays
\* in the session of the worker
AddClassCommitFails(w) ==
    /\ UNCHANGED <<poolVars, yearVars, cacheVars, webVars>>
    /\ crawler[w].pc = "looked"
    /\ crawler[w].found = NoRow
    /\ crawler[w].exception_count < MaxTaskFailures
    /\ crawler' = [crawler EXCEPT
                      ![w].pc = "raised",
                      ![w].raised = "OperationalError",
                      ![w].pending = {NewClassRow(crawler[w].cand, None)}]
    /\ UNCHANGED dbVars

\* what crawl_function raises besides the errors of the store: session.py
\* lines 74-75, database.py lines 271-272 and 716-721
TaskErrors ==
    {"AuthenticationFailure", "Multiple matches. Year unspecified",
     "Instances belong to multiple turns"}

\* the errors of the caller among them
UsageErrors ==
    {"Multiple matches. Year unspecified", "Instances belong to multiple turns"}

\* crawler.py line 40: crawl_function raises before it has written anything
TaskRaises(w, what) ==
    /\ UNCHANGED <<poolVars, yearVars, cacheVars, webVars>>
    /\ crawler[w].pc = "crawl"
    /\ crawler[w].exception_count < MaxTaskFailures
    /\ crawler' = [crawler EXCEPT ![w].pc = "raised", ![w].raised = what]
    /\ UNCHANGED dbVars

\* a handler that leaves the session as the failed attempt left it
PendingAfterRollback_Kept(rows) == rows

\* crawler.py line 44: db_session.rollback()
PendingAfterRollback(rows) == {}

\* crawler.py lines 43-52: the except clause of run, the ceiling, the sleep
\* and the next round of the inner loop
CrawlRetry(w) ==
    /\ UNCHANGED <<poolVars, yearVars, cacheVars, webVars>>
    /\ crawler[w].pc = "raised"
    /\ crawler' = [crawler EXCEPT
                      ![w].pending = PendingAfterRollback(@),
                      ![w].exception_count = @ + 1,
                      ![w].pc = IF CeilingExceeded(crawler[w].exception_count + 1)
                                THEN "fatal" ELSE "crawl"]
    /\ UNCHANGED dbVars

\* populate.py lines 99-108: the store holds no class, every worker has its
\* session and its controller
InitRace ==
    /\ crawler = [w \in 1..NumWorkers |-> NoCrawl]
    /\ IdlePool
    /\ IdleYear
    /\ IdleDb
    /\ IdleCache
    /\ IdleWeb

NextRace ==
    \/ \E w \in 1..NumWorkers : \E c \in ClassCandidates : WorkerTakes(w, c)
    \/ \E w \in 1..NumWorkers : AddClassQuery(w)
    \/ \E w \in 1..NumWorkers : AddClassWrite(w)
    \/ \E w \in 1..NumWorkers : AddClassCommitFails(w)
    \/ \E w \in 1..NumWorkers : \E what \in TaskErrors : TaskRaises(w, what)
    \/ \E w \in 1..NumWorkers : CrawlRetry(w)

SpecRace == InitRace /\ [][NextRace]_vars

(***************************************************************************)
(* Controller.add_turn and Controller.add_turn_students                    *)
(***************************************************************************)
\* the teachers and the students earlier phases have stored
Members == {1, 2}

MemberLists == UNION {[1..n -> Members] : n \in 0..MaxMembers}

\* crawler.py lines 435-446: candidates.Turn(class_instance, number,
\* turn_type, enrolled, capacity, minutes, routes, restrictions, state,
\* teachers)
TurnCandidates ==
    {[class_instance |-> 1, number |-> n, type |-> 1, enrolled |-> e,
      capacity |-> None, minutes |-> None, routes |-> NoText,
      restrictions |-> r, state |-> NoText, teachers |-> t] :
        n \in {1, 2}, e \in Nullable({20}), r \in NullableText({"r"}),
        t \in MemberLists}

\* models.py lines 428-436: a row of turn_students or turn_teachers
Link(table, turn, member) == [table |-> table, turn |-> turn, member |-> member]

\* the rows of both association tables
Links(tables) ==
    {Link("turn_teachers", r.turn, r.member) : r \in tables.turn_teachers}
        \cup {Link("turn_students", r.turn, r.member) : r \in tables.turn_students}

\* models.py lines 430-431 and 435-436: the primary key of an association
\* table is the pair; the flush inserts one row per pending append
LinksFlushFail(tables) ==
    LET p == tables.pending_links
    IN  \/ \E i, j \in 1..Len(p) : i # j /\ p[i] = p[j]
        \/ \E i \in 1..Len(p) : p[i] \in Links(tables)

\* the session after a flush that the store took
FlushedLinks(tables) ==
    LET p == tables.pending_links
        of(table) == {[turn |-> p[i].turn, member |-> p[i].member] :
                         i \in {j \in 1..Len(p) : p[j].table = table}}
    IN  [tables EXCEPT !.turn_teachers = @ \cup of("turn_teachers"),
                       !.turn_students = @ \cup of("turn_students"),
                       !.pending_links = <<>>]

\* a relationship list that writes a row for every append
AddedMembers_All(loaded, appended) == appended

\* models.py lines 691-692, orm.relationship(secondary=...): of the members
\* appended to the list, the session writes those that were not in the list
\* when it was loaded, once per append
AddedMembers(loaded, appended) ==
    SelectSeq(appended, LAMBDA m : m \notin loaded)

\* database.py line 709 and line 772: [collection.append(m) for m in members]
AppendMembers(tables, table, turn, members) ==
    LET loaded == {r.member : r \in {x \in tables[table] : x.turn = turn}}
        added == AddedMembers(loaded, members)
    IN  [tables EXCEPT !.pending_links =
            @ \o [i \in 1..Len(added) |-> Link(table, turn, added[i])]]

\* database.py lines 671-680; state is given turn.restrictions
NewTurn(c, id) ==
    [id |-> id, class_instance |-> c.class_instance, number |-> c.number,
     type |-> c.type, enrolled |-> c.enrolled, capacity |-> c.capacity,
     minutes |-> c.minutes, routes |-> c.routes,
     restrictions |-> c.restrictions, state |-> c.restrictions]

\* lines 684-704
MergeTurn(r, c) ==
    [r EXCEPT
        !.minutes = IF c.minutes # None /\ c.minutes # 0 THEN c.minutes ELSE @,
        !.enrolled = IF c.enrolled # None THEN c.enrolled ELSE @,
        !.capacity = IF c.capacity # None THEN c.capacity ELSE @,
        !.routes = IF c.routes # NoText THEN c.routes ELSE @,
        !.restrictions = IF c.restrictions # NoText THEN c.restrictions ELSE @,
        !.state = IF c.state # NoText THEN c.state ELSE @]

\* lines 684-706: the value of changed
TurnChanged(c) ==
    \/ (c.minutes # None /\ c.minutes # 0)
    \/ c.enrolled # None
    \/ c.capacity # None
    \/ c.routes # NoText
    \/ c.restrictions # NoText
    \/ c.state # NoText

\* the members the store links to the turn of this key
LinkedTo(tables, table, turn) ==
    {r.member : r \in {x \in tables[table] : x.turn = turn}}

CanCallLinks == call.raised = "none" /\ calls < MaxLinkCalls

\* database.py lines 663-710
AddTurn(c) ==
    LET flushed == FlushedLinks(session)
        found == {r \in flushed.turns :
                     /\ r.number = c.number
                     /\ r.class_instance = c.class_instance
                     /\ r.type = c.type}
        r == CHOOSE x \in found : TRUE
        db_turn == IF found = {} THEN NewTurn(c, NextId(flushed.turns))
                   ELSE MergeTurn(r, c)
        written == [flushed EXCEPT !.turns = (@ \ found) \cup {db_turn}]
        before == IF found = {} THEN {}
                  ELSE LinkedTo(store, "turn_teachers", r.id)
        cand == [turn |-> c, linked_before |-> before]
    IN
    /\ UNCHANGED nonDbVars
    /\ CanCallLinks
    /\ calls' = calls + 1
    /\ UNCHANGED batch
    /\ IF LinksFlushFail(session)
       THEN \* line 664: the query flushes first
            /\ call' = Raised("add_turn", cand, "IntegrityError", NoText, NoText)
            /\ UNCHANGED <<store, session>>
       ELSE /\ session' = AppendMembers(written, "turn_teachers", db_turn.id,
                                        c.teachers)
            /\ store' = IF found = {} \/ TurnChanged(c) THEN written ELSE store
            /\ call' = Returned("add_turn", cand, db_turn)

\* database.py lines 771-775; turn is a stored models.Turn
AddTurnStudents(turn, students) ==
    LET appended == AppendMembers(session, "turn_students", turn, students)
        cand == [turn |-> turn, students |-> students,
                 linked_before |-> LinkedTo(store, "turn_students", turn)]
    IN
    /\ UNCHANGED nonDbVars
    /\ CanCallLinks
    /\ calls' = calls + 1
    /\ UNCHANGED batch
    /\ IF Len(students) > 0
       THEN IF LinksFlushFail(appended)
            THEN /\ session' = appended
                 /\ store' = store
                 /\ call' = Raised("add_turn_students", cand, "IntegrityError",
                                   NoText, NoText)
            ELSE /\ session' = FlushedLinks(appended)
                 /\ store' = session'
                 /\ call' = Returned("add_turn_students", cand, NoRow)
       ELSE /\ call' = Returned("add_turn_students", cand, NoRow)
            /\ UNCHANGED <<store, session>>

\* a controller over a store without turns, crawler.py lines 435 and 467
InitLinks ==
    /\ store = EmptyTables
    /\ session = EmptyTables
    /\ batch = "none"
    /\ call = NoCall
    /\ calls = 0
    /\ IdlePool
    /\ IdleYear
    /\ IdleCache
    /\ IdleCrawl
    /\ IdleWeb

NextLinks ==
    \/ \E c \in TurnCandidates : AddTurn(c)
    \/ \E r \in session.turns : \E students \in MemberLists :
          AddTurnStudents(r.id, students)
    \/ SessionRollback

SpecLinks == InitLinks /\ [][NextLinks]_vars

(***************************************************************************)
(* Controller.add_enrollments                                              *)
(***************************************************************************)
\* crawler.py line 268: candidates.Enrollment(student, class_instance,
\* attempt, student_year, statutes, observation)
EnrollmentCandidates ==
    {[student |-> 1, class_instance |-> 1, attempt |-> a, student_year |-> y,
      statutes |-> s, observation |-> o] :
        a \in Nullable({1}), y \in Nullable({2}), s \in NullableText({"s"}),
        o \in NullableText({"o", "p"})}

EnrollmentBatches ==
    UNION {[1..n -> EnrollmentCandidates] : n \in 0..MaxBatch}

\* an update that takes every value the candidate has
FillField_Overwrite(stored, given, null) ==
    IF given # null THEN given ELSE stored

\* database.py lines 803-814: a field is written when the stored value is
\* None and the value of the candidate is not
FillField(stored, given, null) ==
    IF stored = null /\ given # null THEN given ELSE stored

\* lines 803-814
MergeEnrollment(r, c) ==
    [r EXCEPT
        !.observation = FillField(@, c.observation, NoText),
        !.student_year = FillField(@, c.student_year, None),
        !.attempt = FillField(@, c.attempt, None),
        !.statutes = FillField(@, c.statutes, NoText)]

\* lines 819-825 and models.py line 593
NewEnrollment(c, id) ==
    [id |-> id, student |-> c.student, class_instance |-> c.class_instance,
     attempt |-> c.attempt, student_year |-> c.student_year,
     statutes |-> c.statutes, observation |-> c.observation]

\* lines 794-828: the loop over the batch; every item that writes commits
RECURSIVE add_enrollments(_, _, _, _)
add_enrollments(tables, enrollments, added, updated) ==
    IF enrollments = <<>>
    THEN [tables |-> tables, added |-> added, updated |-> updated]
    ELSE LET c == Head(enrollments)
             found == {r \in tables.enrollments :
                          /\ r.student = c.student
                          /\ r.class_instance = c.class_instance}
         IN  IF found # {}
             THEN LET r == CHOOSE x \in found : \A y \in found : x.id <= y.id
                      m == MergeEnrollment(r, c)
                  IN  add_enrollments(
                          [tables EXCEPT !.enrollments = (@ \ {r}) \cup {m}],
                          Tail(enrollments), added,
                          IF m # r THEN updated + 1 ELSE updated)
             ELSE add_enrollments(
                      [tables EXCEPT !.enrollments =
                          @ \cup {NewEnrollment(c, NextId(@))}],
                      Tail(enrollments), added + 1, updated)

\* database.py lines 793-831; the counts are those of the log line
AddEnrollments(enrollments) ==
    LET out == add_enrollments(session, enrollments, 0, 0)
    IN
    /\ UNCHANGED nonDbVars
    /\ CanCall
    /\ calls' = calls + 1
    /\ UNCHANGED batch
    /\ session' = out.tables
    /\ store' = out.tables
    /\ call' = Returned("add_enrollments", enrollments,
                        [added |-> out.added, updated |-> out.updated,
                         ignored |-> Len(enrollments) - out.added - out.updated])

\* a controller over a store without enrollments, crawler.py line 271
InitEnroll ==
    /\ store = EmptyTables
    /\ session = EmptyTables
    /\ batch = "none"
    /\ call = NoCall
    /\ calls = 0
    /\ IdlePool
    /\ IdleYear
    /\ IdleCache
    /\ IdleCrawl
    /\ IdleWeb

NextEnroll == \E enrollments \in EnrollmentBatches : AddEnrollments(enrollments)

SpecEnroll == InitEnroll /\ [][NextEnroll]_vars

(***************************************************************************)
(* Session (session.py): the registry of active sessions and authenticate  *)
(***************************************************************************)
Sessions == 1..MaxSessions

\* the cookie file paths Session() is given
CookieFiles == {"cookies", "cookies2"}

\* the sessions in __active_sessions__
Active(w) == {w.active_sessions[i] : i \in 1..Len(w.active_sessions)}

\* a constructor that never finds the cookie file in use
SharesCookieFile_Never(w, cookies) == FALSE

\* session.py lines 39-41
SharesCookieFile(w, cookies) ==
    \E s \in Active(w) : w.sessions[s].cookie_file = cookies

\* session.py lines 31-47: Session(username, password, cookies)
SessionInit(s, cookies) ==
    /\ UNCHANGED nonWebVars
    /\ web.sessions[s].state = "none"
    /\ IF SharesCookieFile(web, cookies)
       THEN \* line 41: raise Exception("Attempted to share a cookie file")
            web' = [web EXCEPT !.made = [session |-> s, cookie_file |-> cookies,
                                         raised |-> "Exception"]]
       ELSE web' = [web EXCEPT
                !.sessions[s] = [state |-> "active", cookie_file |-> cookies,
                                 authenticated |-> FALSE,
                                 last_authentication |-> None,
                                 last_success |-> None],
                !.active_sessions = Append(@, s),
                !.made = [session |-> s, cookie_file |-> cookies,
                          raised |-> "none"]]

\* session.py lines 150-151: __active_sessions__.remove(self)
SessionExit(s) ==
    /\ UNCHANGED nonWebVars
    /\ s \in Active(web)
    /\ web' = [web EXCEPT
            !.sessions[s].state = "exited",
            !.active_sessions = SelectSeq(@, LAMBDA x : x # s)]

\* a failing authentication that keeps the permit
LockAfterFailure_Held(n) == n

\* session.py lines 83-84: the finally clause after the raise of line 75
LockAfterFailure(n) == n + 1

\* the threads between acquire (line 59) and release (line 84)
Inside(w) == {t \in 1..NumWorkers : w.pc[t] \in {"locked", "posting", "timeout"}}

\* session.py lines 61-62: the condition of the credential POST
MustPost(last, now) == last = None \/ last < now - AuthWindow

\* session.py line 59: __auth_lock__.acquire() by a thread that calls
\* authenticate on a constructed session
AuthAcquire(t, s) ==
    /\ UNCHANGED nonWebVars
    /\ web.pc[t] = "idle"
    /\ web.sessions[s].state # "none"
    /\ web.auth_lock > 0
    /\ web' = [web EXCEPT !.auth_lock = @ - 1, !.pc[t] = "locked",
                          !.on[t] = s, !.result[t] = "none"]

\* lines 61-62 and 80-84: the else branch and the release
AuthSkip(t) ==
    /\ UNCHANGED nonWebVars
    /\ web.pc[t] = "locked"
    /\ ~MustPost(web.sessions[web.on[t]].last_authentication, web.now)
    /\ web' = [web EXCEPT
            !.sessions[web.on[t]].last_authentication = web.now,
            !.auth_lock = @ + 1, !.pc[t] = "idle", !.result[t] = "returned"]

\* lines 61-69: the credential POST is sent
AuthPost(t) ==
    /\ UNCHANGED nonWebVars
    /\ web.pc[t] = "locked"
    /\ MustPost(web.sessions[web.on[t]].last_authentication, web.now)
    /\ web' = [web EXCEPT !.pc[t] = "posting"]

\* a handler that gives the permit back while it sleeps
LockDuringSleep_Released(n) == n + 1

\* session.py lines 71-73: the handler of Timeout is inside the try of line
\* 60 and leaves the permit where it is
LockDuringSleep(n) == n

\* lines 71-73: requests.exceptions.Timeout, sleep(5)
AuthTimeout(t) ==
    /\ UNCHANGED nonWebVars
    /\ web.pc[t] = "posting"
    /\ web' = [web EXCEPT !.pc[t] = "timeout",
                          !.auth_lock = LockDuringSleep(@)]

\* lines 63-69: the loop sends the POST again
AuthRetry(t) ==
    /\ UNCHANGED nonWebVars
    /\ web.pc[t] = "timeout"
    /\ web' = [web EXCEPT !.pc[t] = "posting"]

\* lines 74-79 and 83-84: the response does not hold "password"
AuthSucceed(t) ==
    /\ UNCHANGED nonWebVars
    /\ web.pc[t] = "posting"
    /\ web' = [web EXCEPT
            !.sessions[web.on[t]].authenticated = TRUE,
            !.sessions[web.on[t]].last_authentication = web.now,
            !.sessions[web.on[t]].last_success = web.now,
            !.auth_lock = @ + 1, !.pc[t] = "idle", !.result[t] = "returned"]

\* lines 74-75 and 83-84: the response holds "password"
AuthFail(t) ==
    /\ UNCHANGED nonWebVars
    /\ web.pc[t] = "posting"
    /\ web' = [web EXCEPT
            !.auth_lock = LockAfterFailure(@), !.pc[t] = "idle",
            !.result[t] = "AuthenticationFailure"]

\* lines 65-71 and 83-84: post raises another exception than Timeout
AuthError(t) ==
    /\ UNCHANGED nonWebVars
    /\ web.pc[t] = "posting"
    /\ web' = [web EXCEPT
            !.auth_lock = @ + 1, !.pc[t] = "idle",
            !.result[t] = "ConnectionError"]

\* datetime.now() has advanced
Tick ==
    /\ UNCHANGED nonWebVars
    /\ web.now + TickMinutes <= MaxNow
    /\ web' = [web EXCEPT !.now = @ + TickMinutes]

InitWeb ==
    /\ IdleWeb
    /\ IdlePool
    /\ IdleYear
    /\ IdleDb
    /\ IdleCache
    /\ IdleCrawl

NextWeb ==
    \/ \E s \in Sessions : \E cookies \in CookieFiles : SessionInit(s, cookies)
    \/ \E s \in Sessions : SessionExit(s)
    \/ \E t \in 1..NumWorkers : \E s \in Sessions : AuthAcquire(t, s)
    \/ \E t \in 1..NumWorkers : AuthSkip(t)
    \/ \E t \in 1..NumWorkers : AuthPost(t)
    \/ \E t \in 1..NumWorkers : AuthTimeout(t)
    \/ \E t \in 1..NumWorkers : AuthRetry(t)
    \/ \E t \in 1..NumWorkers : AuthSucceed(t)
    \/ \E t \in 1..NumWorkers : AuthFail(t)
    \/ \E t \in 1..NumWorkers : AuthError(t)
    \/ Tick

SpecWeb == InitWeb /\ [][NextWeb]_vars

(***************************************************************************)
(* Properties of the worker pool                                           *)
(***************************************************************************)
Terminated(w) == pc[w] \in {"done", "fatal"}
AllTerminated == \A w \in Workers : Terminated(w)
\* the target a worker gave up on at the ceiling
Abandoned(t) == \E w \in Workers : pc[w] = "fatal" /\ work_unit[w] = t

RunCounts ==
    \A t \in Targets :
        /\ runs[t] >= 1
        /\ ~failed[t] => runs[t] = 1
        /\ (failed[t] /\ ~Abandoned(t)) => runs[t] > 1

\* C1 as stated: in every execution, once all workers have terminated the
\* queue is empty and every seeded target has been run at least once
\* (exactly once when it never failed, more often when it was retried and
\* then succeeded).
C1_QueueExhaustion ==
    AllTerminated => (work_queue = <<>> /\ RunCounts)

\* C1 amended: once all workers have terminated and at least one of them
\* terminated normally (by observing the empty queue), the queue is empty and
\* every seeded target has been run at least once (exactly once when it never
\* failed, more often when it was retried and then succeeded).
C1_QueueExhaustionNormalExit ==
    (AllTerminated /\ \E w \in Workers : pc[w] = "done")
        => (work_queue = <<>> /\ RunCounts)

\* all workers ended, not all of them fatally, and a target needed a retry
C1_Witness ==
    /\ AllTerminated
    /\ \E w \in Workers : pc[w] = "done"
    /\ \E t \in Targets : runs[t] > 1 /\ ~Abandoned(t)
    /\ \E t \in Targets : runs[t] = 1

\* C2: a worker terminates fatally right after the 11th consecutive failed
\* attempt on its target: it has made exactly 11 attempts on it, no target is
\* ever attempted a 12th time, a worker with 11 failures does not go on, and
\* no worker is fatal with 10 or fewer failures.
C2_FatalCeiling ==
    /\ \A w \in Workers :
          /\ pc[w] = "fatal" =>
                /\ exception_count[w] = 11
                /\ attempts[w] = 11
                /\ failed[work_unit[w]]
          /\ exception_count[w] >= 11 => pc[w] = "fatal"
          /\ pc[w] \in {"sleep", "crawl"} => attempts[w] = exception_count[w]
          /\ pc[w] = "sleep" => exception_count[w] <= 10
          /\ attempts[w] <= 11

C2_Witness ==
    \E w \in Workers : pc[w] = "fatal" /\ attempts[w] = 11

\* the sleeps of a task that fails ten times in a row
RampOfDelays == <<6, 7, 8, 9, 10, 11, 12, 13, 14, 15>>

\* C3: the k-th consecutive failure on a target (1 <= k <= 10) is followed by
\* a sleep of 5 + min(k, 55) seconds, so the sleeps on one target are
\* 6, 7, 8, ... in this order; a success leaves the failure counter at 0 and
\* the first failure on the next target sleeps 6 s again.
C3_BackoffDelays ==
    \A w \in Workers :
        /\ Len(slept[w]) <= 10
        /\ \A k \in 1..Len(slept[w]) :
              slept[w][k] = RampOfDelays[k] /\ slept[w][k] = 5 + Min(k, 55)
        /\ pc[w] = "sleep" => Len(slept[w]) = exception_count[w]
        /\ pc[w] \in {"acquire", "check", "get", "release_exit", "done"}
              => exception_count[w] = 0

\* fails on attempts 1 to 3, succeeds on attempt 4
C3_Witness ==
    \E w \in Workers :
        /\ slept[w] = <<6, 7, 8>>
        /\ pc[w] = "acquire"
        /\ attempts[w] = 4
        /\ exception_count[w] = 0

InCriticalSection(w) == pc[w] \in {"check", "get", "release", "release_exit"}

\* a worker changes its target only by the one get() that returns the target
TargetOnlyByFirstPop ==
    \A w \in Workers :
        work_unit'[w] # work_unit[w] =>
            /\ pc[w] = "get"
            /\ pops[work_unit'[w]] = 0
            /\ pops'[work_unit'[w]] = 1
            /\ \A v \in Workers : v # w => work_unit[v] # work_unit'[w]

\* C4: under every interleaving each target is popped at most once, by one
\* worker, and is then never in the queue again; a worker takes a target only
\* by that pop, so no two workers ever hold (and run) the same target; the
\* emptiness check and the pop are made by the holder of the queue lock, and
\* no worker is about to call get() on an empty queue.
C4_PopOnceUnderLock ==
    /\ [](\A t \in Targets :
             /\ pops[t] <= 1
             /\ (\E i \in 1..Len(work_queue) : work_queue[i] = t) => pops[t] = 0)
    /\ [](\A w1, w2 \in Workers :
             (w1 # w2 /\ work_unit[w1] # NoUnit) => work_unit[w1] # work_unit[w2])
    /\ [](\A w \in Workers :
             /\ InCriticalSection(w) => queue_lock = w
             /\ pc[w] = "get" => work_queue # <<>>)
    /\ [][TargetOnlyByFirstPop]_vars

\* two workers hold two different targets at the same time
C4_Witness ==
    \E w1, w2 \in Workers :
        /\ w1 # w2
        /\ pc[w1] = "crawl" /\ pc[w2] = "crawl"
        /\ pops[work_unit[w1]] = 1 /\ pops[work_unit[w2]] = 1

\* C21: when populate_classes returns, every worker thread has ended (its
\* run returned or raised) and every started thread was joined; the empty
\* queue the polling loop saw is still empty, so the phase that follows reads
\* the store after every write of this phase's tasks
C21_ReturnsAfterWorkers ==
    main_pc = "returned" =>
        /\ AllTerminated
        /\ joined = NumWorkers
        /\ work_queue = <<>>

\* populate_classes has returned; one worker had ended at the ceiling and
\* another one had drained the queue
C21_Witness ==
    /\ main_pc = "returned"
    /\ \E w \in Workers : pc[w] = "fatal"
    /\ \E w \in Workers : pc[w] = "done"

\* C22: a worker that ended at the failure ceiling does not hold the queue
\* lock, and the other workers go on: once a worker has ended fatally, in
\* the end the queue is drained unless every worker ended fatally
C22_SiblingsUnaffected ==
    /\ [](\A w \in Workers : pc[w] = "fatal" => queue_lock # w)
    /\ ((\E w \in Workers : pc[w] = "fatal")
           ~> (work_queue = <<>> \/ \A w \in Workers : pc[w] = "fatal"))

\* one worker has ended fatally, the other has since taken the last target
\* and run it
C22_Witness ==
    \E w1, w2 \in Workers :
        /\ pc[w1] = "fatal"
        /\ pc[w2] = "acquire"
        /\ attempts[w2] >= 1
        /\ work_queue = <<>>
        /\ work_unit[w2] = NumTargets

\* a step of the pool leaves the target of every worker that has failed on
\* it and the queue as they are, but for the get() of a worker in its
\* critical section, which takes the head of the queue
NeitherRequeuesNorAdvances ==
    /\ \A w \in Workers :
          \/ pc[w] \in {"sleep", "fatal"}
          \/ (pc[w] = "crawl" /\ pc'[w] \in {"sleep", "fatal"})
          => /\ work_unit'[w] = work_unit[w]
             /\ pc[w] = "sleep" => pc'[w] \in {"sleep", "crawl"}
             /\ pc[w] = "fatal" => pc'[w] = "fatal"
             /\ (pc[w] \in {"sleep", "crawl"} /\ pc'[w] # pc[w])
                   => work_queue' = work_queue
    /\ \/ work_queue' = work_queue
       \/ /\ work_queue # <<>>
          /\ work_queue' = Tail(work_queue)
          /\ \E w \in Workers : pc[w] = "get" /\ pc'[w] = "release"

\* C23: handling a failed attempt neither requeues nor advances: the worker
\* does not change the queue between the failed attempt and its next
\* attempt, which is on the same target; after seeding no step adds a
\* target to the queue, also when a worker ends fatally
C23_NoRequeueNoAdvance == [][NeitherRequeuesNorAdvances]_vars

\* a worker is about to make its second attempt on its target while targets
\* wait in the queue
C23_Witness ==
    \E w \in Workers :
        /\ pc[w] = "crawl"
        /\ exception_count[w] = 1
        /\ attempts[w] = 1
        /\ work_queue # <<>>

\* C24: the queue lock is held only around the emptiness check and the pop:
\* a worker that is not yet started, waits for the lock, runs the crawl
\* task, sleeps before a retry or has ended, normally or fatally, does not
\* hold the lock
C24_LockOnlyAroundPop ==
    \A w \in Workers :
        pc[w] \in {"new", "acquire", "crawl", "sleep", "done", "fatal"}
            => queue_lock # w

\* one worker sleeps before a retry while another is in its critical
\* section and holds the lock
C24_Witness ==
    \E w1, w2 \in Workers :
        /\ pc[w1] = "sleep"
        /\ pc[w2] = "get"
        /\ queue_lock = w2

\* the conditions a seeded target can be in
Queued(t) == \E i \in 1..Len(work_queue) : work_queue[i] = t

\* the workers that attempt the target or wait to attempt it again
Holders(t) ==
    {w \in Workers : work_unit[w] = t /\ pc[w] \in {"release", "crawl", "sleep"}}

\* crawl_function has returned on the target: it was run, and the worker
\* that popped it is past its inner loop or has popped another target since
Completed(t) ==
    /\ runs[t] >= 1
    /\ pops[t] = 1
    /\ \A w \in Workers :
          work_unit[w] = t =>
              pc[w] \in {"acquire", "check", "get", "release_exit", "done"}

\* the number of the four conditions the target is in
ConditionsOf(t) ==
    (IF Queued(t) THEN 1 ELSE 0) + (IF Holders(t) # {} THEN 1 ELSE 0)
        + (IF Completed(t) THEN 1 ELSE 0) + (IF Abandoned(t) THEN 1 ELSE 0)

\* C36: every seeded target is in exactly one condition: in the queue, held
\* by exactly one live worker, completed, or abandoned by a worker that ended
\* fatally on it; and a worker that has exited normally saw the queue empty
\* under the lock and holds no unfinished target
C36_TargetConditions ==
    /\ \A t \in Targets :
          /\ ConditionsOf(t) = 1
          /\ Cardinality(Holders(t)) <= 1
          /\ Cardinality({i \in 1..Len(work_queue) : work_queue[i] = t}) <= 1
    /\ \A w \in Workers :
          /\ pc[w] = "release_exit" => (queue_lock = w /\ Empty(work_queue))
          /\ pc[w] = "done" =>
                /\ Empty(work_queue)
                /\ work_unit[w] # NoUnit => Completed(work_unit[w])

\* one target is still queued, one is held by a sleeping worker, and one is
\* completed by the other worker, which is about to pop again
C36_Witness ==
    \E t1, t2, t3 \in Targets :
        /\ Queued(t1)
        /\ \E w \in Holders(t2) : pc[w] = "sleep"
        /\ Completed(t3)
        /\ \E w \in Workers : work_unit[w] = t3 /\ pc[w] = "acquire"

(***************************************************************************)
(* Properties of add_year                                                  *)
(***************************************************************************)
\* the range the last add_year call was made on, as that call left it
AfterYearCall == IF year_call.on = "model" THEN entity ELSE candidate

\* C9: add_year (of the persisted and of the candidate TemporalEntity)
\* widens monotonically: a set range [f, l] becomes [min(f, y), max(l, y)],
\* so [2010, 2012] with 2008 and then 2015 gives [2008, 2015]; a year inside
\* the range changes neither bound; a fully unset range becomes [y, y].
C9_AddYearWidens ==
    /\ (year_call.on # "none" /\ year_call.year # None) =>
          LET b == year_call.before
              y == year_call.year
              a == AfterYearCall
          IN  /\ b = Range(None, None) => a = Range(y, y)
              /\ (b.first_year # None /\ b.last_year # None) =>
                    /\ a = Range(Min(b.first_year, y), Max(b.last_year, y))
                    /\ (b.first_year <= y /\ y <= b.last_year) => a = b
    /\ add_year(add_year(Range(2010, 2012), 2008), 2015) = Range(2008, 2015)
    /\ candidate_add_year(candidate_add_year(Range(2010, 2012), 2008), 2015)
          = Range(2008, 2015)

\* a persisted range that 2008 widened before is now widened by 2015
C9_Witness ==
    /\ year_call.on = "model"
    /\ year_call.before = Range(2008, 2012)
    /\ year_call.year = 2015
    /\ entity = Range(2008, 2015)

(***************************************************************************)
(* Properties of the reconciliation of named entities                      *)
(***************************************************************************)
\* this step reconciles one candidate
Reconciles == calls' = calls + 1

\* the natural key a table is looked up by
KeyOf(kind, r) ==
    IF kind = "classes" THEN <<r.internal_id, r.department>>
    ELSE IF kind = "courses" THEN <<r.internal_id, r.institution>>
    ELSE <<r.id>>
CandidateKey(kind, c) ==
    IF kind = "classes" THEN <<c.id, c.department>>
    ELSE IF kind = "courses" THEN <<c.id, c.institution>>
    ELSE <<c.id>>
MethodOf(kind) ==
    IF kind = "classes" THEN "add_class"
    ELSE IF kind = "courses" THEN "add_courses"
    ELSE IF kind = "departments" THEN "add_departments"
    ELSE "add_institutions"

\* this step reconciles a candidate that has the key of the stored row r and
\* another name, not null
OffersOtherName(kind, r) ==
    /\ Reconciles
    /\ call'.op = MethodOf(kind)
    /\ CandidateKey(kind, call'.cand) = KeyOf(kind, r)
    /\ call'.cand.name # NoText
    /\ call'.cand.name # r.name

\* C7 as stated: add_class with a candidate whose name differs from the name
\* of a stored class of the same identifier raises the conflict error that
\* names the old and the new name, and writes nothing: the stored class is
\* unchanged and no class row is created.
C7_ClassNameConflictByIdentifier ==
    [][\A r \in session.classes :
          (/\ Reconciles
           /\ call'.op = "add_class"
           /\ call'.cand.id = r.internal_id
           /\ call'.cand.name # r.name) =>
              /\ call'.raised = "Class name change attempt"
              /\ call'.old = r.name
              /\ call'.new = call'.cand.name
              /\ session' = session
              /\ store' = store]_vars

\* C7 amended: add_class with a candidate whose name differs from the name of
\* the stored class of the same identifier and the same department raises the
\* conflict error that names the old and the new name, and writes nothing:
\* the stored class is unchanged and no class row is created.
C7_ClassNameConflictNoWrite ==
    [][\A r \in session.classes :
          OffersOtherName("classes", r) =>
              /\ call'.raised = "Class name change attempt"
              /\ call'.old = r.name
              /\ call'.new = call'.cand.name
              /\ session' = session
              /\ store' = store]_vars

\* add_class has just raised on a class stored under another name
C7_Witness ==
    /\ call.op = "add_class"
    /\ call.raised = "Class name change attempt"
    /\ \E r \in store.classes :
          /\ KeyOf("classes", r) = CandidateKey("classes", call.cand)
          /\ r.name = call.old
          /\ r.name # call.cand.name

\* the name of the stored row r survives this step
KeepsName(kind, r) ==
    \E r2 \in session'[kind] :
        KeyOf(kind, r2) = KeyOf(kind, r) /\ r2.name = r.name

Covers(r2, r) ==
    /\ r.first_year # None =>
          r2.first_year # None /\ r2.first_year <= r.first_year
    /\ r.last_year # None =>
          r2.last_year # None /\ r2.last_year >= r.last_year

\* C10: reconciling a candidate into a stored institution, department or
\* course never narrows the stored range: afterwards first_year is not later
\* and last_year not earlier than before, and the stored range includes the
\* range of the candidate.
C10_MergeNeverNarrows ==
    [][\A kind \in {"institutions", "departments", "courses"} :
          \A r \in session[kind] :
              Reconciles =>
                  \E r2 \in session'[kind] :
                      /\ KeyOf(kind, r2) = KeyOf(kind, r)
                      /\ Covers(r2, r)
                      /\ (/\ call'.op = MethodOf(kind)
                          /\ call'.raised = "none"
                          /\ CandidateKey(kind, call'.cand) = KeyOf(kind, r))
                            => Covers(r2, call'.cand)]_vars

(***************************************************************************)
(* Properties of the reconciliation of students, teachers and admissions   *)
(***************************************************************************)
\* the rows of a table that carry the natural key of the candidate: the
\* identifier the portal assigns to a student or a teacher, the columns of
\* un_admission for an admission
RowsOfKey(tables, op, c) ==
    IF op = "add_student"
    THEN {r \in tables.students : r.internal_id = c.id}
    ELSE IF op = "add_teacher"
    THEN {r \in tables.teachers : r.id = c.id}
    ELSE IF op = "add_admissions" /\ c # <<>>
    THEN {r \in tables.admissions :
             /\ r.student_id = c[1].student /\ r.name = c[1].name
             /\ r.year = c[1].year /\ r.phase = c[1].phase}
    ELSE {}

\* C5: after any sequence of reconciliation calls the store never holds two
\* persisted students with the same student id, nor two persisted teachers
\* with the same teacher id: a candidate whose key is stored is merged or
\* rejected and never inserted as a second row.
C5_OneRowPerNaturalKey ==
    /\ \A r1, r2 \in store.students : r1.internal_id = r2.internal_id => r1 = r2
    /\ \A r1, r2 \in store.teachers : r1.id = r2.id => r1 = r2

\* this step repeats the call before it, which returned, with the same
\* candidate
RepeatsCall ==
    /\ Reconciles
    /\ call.raised = "none"
    /\ call.op \in {"add_student", "add_teacher", "add_admissions"}
    /\ call'.op = call.op
    /\ call'.cand = call.cand
    /\ call.cand # <<>>

\* C6: reconciling the same candidate twice with identical fields returns the
\* same persisted entity both times and leaves exactly one row for that
\* natural key in the store.
C6_IdempotentReconciliation ==
    [][RepeatsCall =>
          /\ call'.raised = "none"
          /\ call'.entity = call.entity
          /\ Cardinality(RowsOfKey(store', call'.op, call'.cand)) = 1]_vars

(***************************************************************************)
(* Properties of the ranges of stored entities                             *)
(***************************************************************************)
\* first_year is null exactly when last_year is null
ClosedOrUnset(r) == (r.first_year = None) <=> (r.last_year = None)

TemporalRows(tables) ==
    tables.institutions \cup tables.departments \cup tables.courses

\* C11: starting from ranges that are fully unset or fully set, after any
\* sequence of add_year calls and of institution, department and course
\* reconciliations the range of every temporal entity, as the session holds it
\* and as the store holds it, is fully unset or fully set; add_year on a
\* candidate keeps its range so as well.
C11_RangeNeverHalfOpen ==
    /\ \A r \in TemporalRows(session) \cup TemporalRows(store) : ClosedOrUnset(r)
    /\ \A r \in CandidateRanges : \A y \in DbYears :
          /\ ClosedOrUnset(candidate_add_year(r, y))
          /\ ClosedOrUnset(add_year(r, y))

\* a stored institution without a range was given one by a candidate, and a
\* stored course had add_year applied
C11_Witness ==
    /\ \E r \in store.institutions : r.first_year = None /\ r.last_year = None
    /\ \E r \in session.institutions : r.first_year # None /\ r.last_year # None
    /\ call.op = "add_institutions"
    /\ calls = 2

(***************************************************************************)
(* Properties of add_turn_instances                                        *)
(***************************************************************************)
\* this step is add_turn_instances on the instances of one turn
ResyncsTurn(destructive) ==
    /\ Reconciles
    /\ call'.op = "add_turn_instances"
    /\ call'.cand.destructive = destructive
    /\ call'.cand.instances # <<>>
    /\ \A i \in 1..Len(call'.cand.instances) :
          call'.cand.instances[i].turn = call'.cand.instances[1].turn

\* the candidates have pairwise distinct (start, end, weekday)
DistinctKeys(instances) ==
    \A i, j \in 1..Len(instances) :
        (/\ instances[i].start = instances[j].start
         /\ instances[i].end = instances[j].end
         /\ instances[i].weekday = instances[j].weekday) => i = j

\* the candidates have pairwise distinct (start, weekday)
DistinctStarts(instances) ==
    \A i, j \in 1..Len(instances) :
        (/\ instances[i].start = instances[j].start
         /\ instances[i].weekday = instances[j].weekday) => i = j

\* row r is the instance that candidate c describes
Stores(r, c) ==
    /\ r.turn = c.turn /\ r.start = c.start /\ r.end = c.end
    /\ r.weekday = c.weekday /\ r.room = c.room

\* the rows of the turn are one row per candidate, and nothing else
ExactlyTheCandidates(rows, instances) ==
    /\ \A i \in 1..Len(instances) :
          Cardinality({r \in rows :
              /\ r.start = instances[i].start /\ r.end = instances[i].end
              /\ r.weekday = instances[i].weekday}) = 1
    /\ \A r \in rows : \E i \in 1..Len(instances) : Stores(r, instances[i])

\* the rows of the other turns are what they were
OtherTurnsUntouched ==
    {r \in session'.turn_instances : r.turn # call'.cand.instances[1].turn}
        = {r \in session.turn_instances : r.turn # call'.cand.instances[1].turn}

\* C12: incremental add_turn_instances on a turn with stored instances E and
\* candidates C of pairwise distinct (start, end, weekday), which do not
\* collide with each other in the store either, leaves exactly one stored
\* instance per candidate key: a stored instance that matches a candidate is
\* kept with the room of the candidate, a stored instance without a match is
\* deleted, a candidate without a match is inserted, and the store takes the
\* result.
C12_IncrementalResync ==
    [][(/\ ResyncsTurn(FALSE)
        /\ DistinctKeys(call'.cand.instances)
        /\ DistinctStarts(call'.cand.instances)) =>
          LET instances == call'.cand.instances
              E == {r \in session.turn_instances : r.turn = instances[1].turn}
              after == {r \in session'.turn_instances : r.turn = instances[1].turn}
          IN  /\ call'.raised = "none"
              /\ ExactlyTheCandidates(after, instances)
              /\ \A r \in E :
                    IF \E i \in 1..Len(instances) : SameSlot(r, instances[i])
                    THEN \E r2 \in after : r2.id = r.id
                    ELSE \A r2 \in after : r2.id # r.id
              /\ OtherTurnsUntouched
              /\ ~FlushFails(session')]_vars

\* C13 as stated: destructive add_turn_instances deletes every stored
\* instance of the turn of the candidates and inserts one instance per
\* candidate: afterwards the stored instances of the turn are exactly the
\* candidates, and the instances of every other turn are unchanged.
C13_DestructiveReplacesAll ==
    [][ResyncsTurn(TRUE) =>
          LET instances == call'.cand.instances
              E == {r \in session.turn_instances : r.turn = instances[1].turn}
              after == {r \in store'.turn_instances : r.turn = instances[1].turn}
          IN  /\ call'.raised = "none"
              /\ Cardinality(after) = Len(instances)
              /\ \A i \in 1..Len(instances) : \E r \in after : Stores(r, instances[i])
              /\ \A r \in after : \E i \in 1..Len(instances) : Stores(r, instances[i])
              /\ \A r \in E : \A r2 \in after : r2.id # r.id
              /\ OtherTurnsUntouched]_vars

\* C13 amended: destructive add_turn_instances with candidates of pairwise
\* distinct (start, weekday) deletes every stored instance of their turn,
\* inserts one instance per candidate and commits: afterwards the stored
\* instances of the turn are exactly the candidates and the instances of every
\* other turn are unchanged; when the store rejects changes pending from an
\* earlier incremental call, it rolls back and raises instead.
C13_DestructiveReplacesDistinct ==
    [][(ResyncsTurn(TRUE) /\ DistinctStarts(call'.cand.instances)) =>
          LET instances == call'.cand.instances
              E == {r \in session.turn_instances : r.turn = instances[1].turn}
              after == {r \in store'.turn_instances : r.turn = instances[1].turn}
          IN  IF FlushFails(session)
              THEN /\ call'.raised = "Error deleting turn instances"
                   /\ session' = store
                   /\ store' = store
              ELSE /\ call'.raised = "none"
                   /\ Cardinality(after) = Len(instances)
                   /\ \A i \in 1..Len(instances) :
                         \E r \in after : Stores(r, instances[i])
                   /\ \A r \in after :
                         \E i \in 1..Len(instances) : Stores(r, instances[i])
                   /\ \A r \in E : \A r2 \in after : r2.id # r.id
                   /\ OtherTurnsUntouched
                   /\ store' = session']_vars

\* the second call was destructive and replaced the two instances that the
\* first call had stored for the turn
C13_Witness ==
    /\ call.op = "add_turn_instances"
    /\ call.raised = "none"
    /\ call.cand.destructive
    /\ calls = 2
    /\ store.turn_instances # {}
    /\ \A r \in store.turn_instances : r.id > 2 /\ r.turn = call.cand.instances[1].turn

\* C14: add_turn_instances with candidates that belong to more than one turn
\* raises the usage error before any change, under the incremental and under
\* the destructive policy: no turn instance is deleted, inserted or updated.
C14_MixedTurnsRejected ==
    [][(/\ Reconciles
        /\ call'.op = "add_turn_instances"
        /\ \E i, j \in 1..Len(call'.cand.instances) :
              call'.cand.instances[i].turn # call'.cand.instances[j].turn) =>
          /\ call'.raised = "Instances belong to multiple turns"
          /\ session' = session
          /\ store' = store]_vars

\* a destructive call on the instances of two turns has raised and the stored
\* instances are still there
C14_Witness ==
    /\ call.op = "add_turn_instances"
    /\ call.raised = "Instances belong to multiple turns"
    /\ call.cand.destructive
    /\ store.turn_instances # {}
    /\ session = store


(***************************************************************************)
(* Properties of the cache                                                 *)
(***************************************************************************)
\* what get_room owes its caller, given the rooms the controller can see
GetRoomContract(res, tables) ==
    res.op = "get_room" =>
        LET a == res.cand
            named == {r \in tables.rooms :
                         r.name = a.name /\ r.building = a.building.id}
            typed == {r \in named : r.room_type = a.room_type}
        IN  IF a.room_type = None
            THEN IF Cardinality(named) = 1
                 THEN res.raised = "none" /\ res.entity \in named
                 ELSE res.raised # "none"
            ELSE typed # {} => res.raised = "none" /\ res.entity \in typed

\* C15: get_room without a room type returns a room only when exactly one
\* room of that name is in the building and raises with none or several;
\* with the right type it returns that room; with and without the cache
C15_GetRoomContract ==
    /\ GetRoomContract(call, session)
    /\ GetRoomContract(twin.call, twin.session)

\* what get_course by abbreviation owes its caller
GetCourseContract(res, tables) ==
    (/\ res.op = "get_course"
     /\ res.cand.identifier = None
     /\ res.cand.abbreviation # NoText) =>
        LET a == res.cand
            matches == {r \in tables.courses : r.abbreviation = a.abbreviation}
            in_year == {r \in matches :
                           /\ r.first_year # None /\ r.last_year # None
                           /\ r.first_year <= a.year /\ a.year <= r.last_year}
        IN  /\ Cardinality(matches) = 1 =>
                res.raised = "none" /\ res.entity \in matches
            /\ Cardinality(matches) > 1 /\ a.year = None =>
                res.raised = "Multiple matches. Year unspecified"
            /\ Cardinality(matches) > 1 /\ a.year # None /\ in_year # {} =>
                res.raised = "none" /\ res.entity \in in_year

\* C16: get_course by an abbreviation that several stored courses have used
\* raises when no year is given and otherwise returns the course whose range
\* holds the year; with one stored course of that abbreviation it returns
\* that course; with and without the cache
C16_GetCourseContract ==
    /\ GetCourseContract(call, session)
    /\ GetCourseContract(twin.call, twin.session)

\* C17: the controller with the cache and the controller without it, given
\* the same calls over equal stores, return the same results at every step
\* and leave the same store contents
C17_CachedEqualsUncached ==
    /\ call.raised = twin.call.raised
    /\ call.entity = twin.call.entity
    /\ store = twin.store

\* the cached buildings are the stored buildings under their names
BuildingsInLockstep ==
    /\ \A b \in store.buildings :
          \E e \in cache.buildings : e.key = Str(b.name) /\ e.value = b
    /\ \A e \in cache.buildings :
          e.value \in store.buildings /\ e.key = Str(e.value.name)

\* the cached rooms are the stored rooms under building, type and name
RoomsInLockstep ==
    /\ \A r \in store.rooms :
          \E e \in cache.rooms :
             /\ e.value = r
             /\ e.name = Str(r.name)
             /\ e.room_type = r.room_type
    /\ \A e \in cache.rooms :
          /\ e.value \in store.rooms
          /\ e.name = Str(e.value.name)
          /\ e.room_type = e.value.room_type

\* the cached courses are the stored courses under their identifiers
CoursesInLockstep ==
    /\ \A r \in store.courses :
          \E e \in cache.courses : e.key = r.internal_id /\ e.value = r
    /\ \A e \in cache.courses :
          e.value \in store.courses /\ e.key = e.value.internal_id

\* C18: with the cache on, after every successful create or update through
\* the controller the cached collection of that kind maps exactly the
\* natural keys in the store to the stored entities of that kind
C18_CacheInLockstep ==
    /\ (call.op = "add_building" /\ call.raised = "none" /\ call.entity # NoRow)
          => BuildingsInLockstep
    /\ (call.op = "add_room" /\ call.raised = "none" /\ call.entity # NoRow)
          => RoomsInLockstep
    /\ (call.op = "add_courses" /\ call.raised = "none") => CoursesInLockstep


(***************************************************************************)
(* Properties of workers that reconcile over one store                     *)
(***************************************************************************)
\* both workers looked the key of the same class up as absent and have both
\* been through the rest of add_class
RacedOnOneKey(w1, w2) ==
    /\ w1 # w2
    /\ crawler[w1].pc \in {"returned", "raised"}
    /\ crawler[w2].pc \in {"returned", "raised"}
    /\ crawler[w1].found = NoRow
    /\ crawler[w2].found = NoRow
    /\ crawler[w1].cand.id = crawler[w2].cand.id
    /\ crawler[w1].cand.department = crawler[w2].cand.department

C20_PhaseReturns == <>(main_pc = "returned")


(***************************************************************************)
(* Properties of failures inside a reconciliation                          *)
(***************************************************************************)
\* add_admissions is given two or more admissions, the first of which the
\* store takes, and fails
LaterItemFails ==
    /\ calls' = calls + 1
    /\ call'.op = "add_admissions"
    /\ call'.raised # "none"
    /\ Len(call'.cand) >= 2
    /\ ~BreaksConstraint([session EXCEPT !.admissions =
                             @ \cup {NewAdmission(call'.cand[1], @)}])

\* C25: when one item of a batch reconciliation fails, only the changes of
\* that item are rolled back: the items of the batch that were processed
\* before it remain committed in the store
C25_PriorItemsCommitted ==
    [][LaterItemFails =>
          NewAdmission(call'.cand[1], session.admissions) \in store'.admissions]_vars


\* what add_room and add_building owe their caller: a call that returns
\* gives the stored entity; a call whose write failed raises and leaves no
\* change pending in the session
FailureReRaised(res, tables, committed) ==
    res.op \in {"add_room", "add_building"} =>
        /\ res.raised = "none" => res.entity # NoRow
        /\ res.raised # "none" => tables = committed

\* C26: a failure inside a reconciliation (a store constraint violated by
\* add_room or add_building) rolls the transaction back and is raised to the
\* caller: the call never returns a null result after a failed write
C26_FailureReRaised ==
    /\ FailureReRaised(call, session, store)
    /\ FailureReRaised(twin.call, twin.session, twin.store)


(***************************************************************************)
(* Properties of the turn associations                                     *)
(***************************************************************************)
\* the association rows of a session with its pending inserts, a pending
\* insert that repeats a row or another pending insert counted apart
LinkView(tables) ==
    [rows |-> Links(tables), pending |-> tables.pending_links]

\* the call that is made links only what the store links already: add_turn
\* with teachers of the stored turn, add_turn_students with students of the
\* turn
ReAddsLinks ==
    /\ calls' = calls + 1
    /\ \/ /\ call'.op = "add_turn"
          /\ call'.cand.turn.teachers # <<>>
          /\ \A i \in 1..Len(call'.cand.turn.teachers) :
                call'.cand.turn.teachers[i] \in call'.cand.linked_before
       \/ /\ call'.op = "add_turn_students"
          /\ call'.cand.students # <<>>
          /\ \A i \in 1..Len(call'.cand.students) :
                call'.cand.students[i] \in call'.cand.linked_before

\* C27: re-adding a stored turn-teacher or turn-student association is a
\* no-op: the call adds no association row and no pending insert, so every
\* pair is held once as before, and it raises no error (a call that raises
\* was given a session whose pending inserts the store rejects)
C27_ReAddIsNoOp ==
    [][ReAddsLinks =>
          /\ Links(store') \ Links(FlushedLinks(session)) = {}
          /\ \/ LinkView(session') = LinkView(session)
             \/ LinkView(session') = LinkView(FlushedLinks(session))
          /\ call'.raised # "none" => LinksFlushFail(session)]_vars

\* add_turn_students has returned after it was given, twice over, a student
\* the store had in the turn
C27_Witness ==
    /\ call.op = "add_turn_students"
    /\ call.raised = "none"
    /\ Len(call.cand.students) = 2
    /\ call.cand.students[1] = call.cand.students[2]
    /\ call.cand.students[1] \in call.cand.linked_before
    /\ session.pending_links = <<>>


(***************************************************************************)
(* Properties of the web sessions                                          *)
(***************************************************************************)
\* C28: at most one thread is between the acquire and the release of the
\* auth lock, so at most one credential POST is under way, and the lock is
\* free whenever no thread is inside authenticate, whichever way the last
\* one left it
C28_AuthMutex ==
    /\ Cardinality(Inside(web)) <= 1
    /\ web.auth_lock = 1 - Cardinality(Inside(web))

\* a thread has left authenticate with AuthenticationFailure and another
\* thread is sending the credential POST
C28_Witness ==
    \E t, u \in 1..NumWorkers :
        /\ web.pc[t] = "idle"
        /\ web.result[t] = "AuthenticationFailure"
        /\ web.pc[u] = "posting"

\* a thread that holds the lock takes one of the branches of line 62
Decides(t) == web.pc[t] = "locked" /\ web'.pc[t] # "locked"

\* a thread leaves authenticate with AuthenticationFailure
Fails(t) ==
    /\ web.pc[t] = "posting"
    /\ web'.pc[t] = "idle"
    /\ web'.result[t] = "AuthenticationFailure"

\* C29: authenticate sends no credential POST when the last successful
\* authentication of the session is younger than 15 minutes and sends one
\* otherwise; after AuthenticationFailure the session is not marked
\* authenticated
C29_AuthWindow ==
    [][\A t \in 1..NumWorkers :
          /\ Decides(t) =>
                LET ok == web.sessions[web.on[t]].last_success
                IN  IF ok # None /\ web.now - ok < AuthWindow
                    THEN web'.pc[t] = "idle"
                    ELSE web'.pc[t] = "posting"
          /\ Fails(t) => ~web'.sessions[web.on[t]].authenticated]_vars

\* a Session() call returns or raises
Constructs ==
    \/ web'.made # web.made
    \/ \E s \in Sessions :
          web.sessions[s].state = "none" /\ web'.sessions[s].state # "none"

\* what the claim says of one Session() call, inUse being the cookie files
\* it may not be given
ConstructionContract(inUse) ==
    Constructs =>
        IF web'.made.cookie_file \in inUse
        THEN /\ web'.made.raised = "Exception"
             /\ web'.active_sessions = web.active_sessions
             /\ web'.sessions = web.sessions
        ELSE /\ web'.made.raised = "none"
             /\ web'.active_sessions = Append(web.active_sessions, web'.made.session)
             /\ web'.sessions[web'.made.session].cookie_file = web'.made.cookie_file

Retries(w) == crawler[w].pc = "raised" /\ crawler'[w].pc = "crawl"

\* C31: a usage error raised inside a crawl task (the instances of several
\* turns given to add_turn_instances, get_course on an ambiguous abbreviation
\* without a year) is never retried: the worker does not run the crawl task
\* again on that target
C31_UsageErrorNotRetried ==
    [][\A w \in 1..NumWorkers :
          crawler[w].raised \in UsageErrors => ~Retries(w)]_vars

\* C32: AuthenticationFailure raised during a crawl task is fatal to the
\* whole run: once it has been raised no worker starts another attempt
C32_AuthenticationFailureFatal ==
    [][(\E w \in 1..NumWorkers : crawler[w].raised = "AuthenticationFailure") =>
          \A u \in 1..NumWorkers :
              crawler'[u].pc = "crawl" => crawler[u].pc = "crawl"]_vars

\* C33: after an attempt has raised, the worker rolls its own transaction
\* back before it sleeps and retries: an attempt starts with no uncommitted
\* change of an earlier attempt, the handler leaves what is committed in the
\* store and leaves the session of every other worker as it is
C33_RollbackBeforeRetry ==
    [][\A w \in 1..NumWorkers :
          /\ crawler'[w].pc = "crawl" => crawler'[w].pending = {}
          /\ (crawler[w].pc = "raised" /\ crawler'[w].pc # "raised") =>
                /\ crawler'[w].pending = {}
                /\ store' = store
                /\ \A u \in 1..NumWorkers \ {w} : crawler'[u] = crawler[u]]_vars

\* a worker has stored its class at the second attempt, after the commit of
\* the first one failed, while the other worker has a failed commit in its
\* session
C33_Witness ==
    \E w, u \in 1..NumWorkers :
        /\ crawler[w].pc = "returned"
        /\ crawler[w].exception_count = 1
        /\ crawler[w].raised = "OperationalError"
        /\ store.classes # {}
        /\ crawler[u].pc = "raised"
        /\ crawler[u].pending # {}


(***************************************************************************)
(* Properties of what a reconciliation leaves in the session               *)
(***************************************************************************)
\* C34: a reconciliation that returns normally has committed its changes:
\* when add_turn_instances returns, under either policy, the session of the
\* controller holds no insert, update or delete that the store has not taken
C34_ReturnedMeansCommitted ==
    (call.op = "add_turn_instances" /\ call.raised = "none") => session = store

\* add_turn creates a turn: no turn of the key of the candidate is stored
CreatesTurn ==
    /\ calls' = calls + 1
    /\ call'.op = "add_turn"
    /\ call'.raised = "none"
    /\ ~\E r \in session.turns :
          /\ r.number = call'.cand.turn.number
          /\ r.class_instance = call'.cand.turn.class_instance
          /\ r.type = call'.cand.turn.type

\* C35: a reconciliation that creates an entity stores every field of the
\* candidate: the turn add_turn creates has the state and the restrictions
\* of the candidate, and its other fields
C35_CreatedFromCandidate ==
    [][CreatesTurn =>
          LET r == call'.entity
              c == call'.cand.turn
          IN  /\ r \in store'.turns
              /\ r.number = c.number
              /\ r.class_instance = c.class_instance
              /\ r.type = c.type
              /\ r.enrolled = c.enrolled
              /\ r.capacity = c.capacity
              /\ r.minutes = c.minutes
              /\ r.routes = c.routes
              /\ r.restrictions = c.restrictions
              /\ r.state = c.state]_vars


(***************************************************************************)
(* Properties of the two policies of add_turn_instances                    *)
(***************************************************************************)
\* the instances the store holds for the turn once the session that the
\* call has left is committed; a commit that the store rejects stores nothing
StoredAfter(out, turn) ==
    LET tables == IF FlushFails(out.session) THEN out.store ELSE out.session
    IN  {[start |-> r.start, end |-> r.end, weekday |-> r.weekday,
          room |-> r.room] : r \in InstancesOfTurn(tables.turn_instances, turn)}

\* C37: for the same turn, the same stored instances and the same candidates
\* of pairwise distinct (start, end, weekday), the incremental and the
\* destructive add_turn_instances leave the same (start, end, weekday, room)
\* instances stored for the turn
C37_PoliciesAgree ==
    (call.raised = "none" /\ session = store) =>
        \A instances \in InstanceLists :
            (instances # <<>> /\ ~MixedTurns(instances) /\ DistinctKeys(instances)) =>
                StoredAfter(add_turn_instances(session, store, instances, FALSE),
                            instances[1].turn)
                    = StoredAfter(add_turn_instances(session, store, instances, TRUE),
                                  instances[1].turn)

\* C38: add_turn_instances with an empty list of candidates returns without
\* touching the store under either policy: the stored instances of every
\* turn are what they were
C38_EmptyListIsNoOp ==
    [][(/\ Reconciles
        /\ call'.op = "add_turn_instances"
        /\ call'.cand.instances = <<>>) =>
          /\ call'.raised = "none"
          /\ session' = session
          /\ store' = store]_vars

\* add_turn_instances was given an empty list after an earlier call had
\* stored instances, which are still there
C38_Witness ==
    /\ call.op = "add_turn_instances"
    /\ call.cand.instances = <<>>
    /\ call.raised = "none"
    /\ store.turn_instances # {}
    /\ session = store


(***************************************************************************)
(* Properties of a credential POST that times out                          *)
(***************************************************************************)
\* C39: while the credential POST of a thread keeps timing out, the thread
\* sends it again and again with the auth lock held: the lock has no permit,
\* every other thread is outside authenticate and neither enters nor
\* completes it, and the only way on for the thread is another POST
C39_TimeoutKeepsLock ==
    [][\A t \in 1..NumWorkers :
          web.pc[t] = "timeout" =>
              /\ web.auth_lock = 0
              /\ web'.auth_lock = 0
              /\ web'.pc[t] \in {"timeout", "posting"}
              /\ \A u \in 1..NumWorkers \ {t} :
                    /\ web.pc[u] = "idle"
                    /\ web'.pc[u] = "idle"
                    /\ web'.result[u] = web.result[u]]_vars

\* the POST of a thread has timed out and the thread is asleep, the clock
\* has moved on, and the other thread has not been through authenticate
C39_Witness ==
    \E t, u \in 1..NumWorkers :
        /\ web.pc[t] = "timeout"
        /\ web.now = MaxNow
        /\ u # t
        /\ web.pc[u] = "idle"
        /\ web.result[u] = "none"


(***************************************************************************)
(* Properties of add_enrollments                                           *)
(***************************************************************************)
\* the stored value is kept when it is set, and is otherwise still unset or
\* a value that a candidate of the batch has for the field
FilledOnly(before, after, given, null) ==
    IF before # null THEN after = before
    ELSE after = null \/ after \in given

\* C40: add_enrollments on a stored (student, class_instance) enrollment
\* only fills the stored fields that are null from values of the candidates
\* that are not: a stored value is never changed, no error is raised when
\* the candidate has another value, and the counts of added, updated and
\* ignored items sum to the size of the batch
C40_FillsNullsOnly ==
    [][(Reconciles /\ call'.op = "add_enrollments") =>
          LET batch_ == call'.cand
              items == {batch_[i] : i \in 1..Len(batch_)}
              counts == call'.entity
          IN  /\ call'.raised = "none"
              /\ \A r \in store.enrollments :
                    \E r2 \in store'.enrollments :
                        /\ r2.id = r.id
                        /\ r2.student = r.student
                        /\ r2.class_instance = r.class_instance
                        /\ FilledOnly(r.observation, r2.observation,
                                      {c.observation : c \in items}, NoText)
                        /\ FilledOnly(r.student_year, r2.student_year,
                                      {c.student_year : c \in items}, None)
                        /\ FilledOnly(r.attempt, r2.attempt,
                                      {c.attempt : c \in items}, None)
                        /\ FilledOnly(r.statutes, r2.statutes,
                                      {c.statutes : c \in items}, NoText)
              /\ counts.added >= 0 /\ counts.updated >= 0 /\ counts.ignored >= 0
              /\ counts.added + counts.updated + counts.ignored = Len(batch_)
              /\ Cardinality(store'.enrollments)
                    = Cardinality(store.enrollments) + counts.added]_vars

\* a batch of two on a stored enrollment: one candidate gave the statutes
\* the enrollment lacked, the other offered another observation than the
\* stored one, which was kept
C40_Witness ==
    /\ call.op = "add_enrollments"
    /\ call.raised = "none"
    /\ call.entity = [added |-> 0, updated |-> 1, ignored |-> 1]
    /\ \E i \in 1..Len(call.cand) : call.cand[i].observation = "p"
    /\ \E r \in store.enrollments : r.observation = "o" /\ r.statutes = "s"

====
